---------------------------- MODULE Spec2Model ----------------------------
(***************************************************************************)
(* The collation generation subsystem of indracore                         *)
(* (node/collation-generation/src/lib.rs): the actor loop of               *)
(* CollationGenerationSubsystem::run, the signal dispatch of               *)
(* handle_incoming, the activation handler handle_new_activations and the  *)
(* collation builder tasks it spawns.                                      *)
(***************************************************************************)
EXTENDS Integers, Sequences, FiniteSets, TLC

(***************************************************************************)
(* Bounds of the model.                                                    *)
(***************************************************************************)
\* builder tasks spawned over a run
MaxTasks == 2

(***************************************************************************)
(* Values.                                                                 *)
(***************************************************************************)
\* self.config before any Initialize
None == 0

\* The CollationGenerationConfig values an Initialize may carry.
Configs == {1, 2}
\* config.para_id
CfgParaId(c) == c
\* config.key, and its public half
CfgKey(c) == <<"key", c>>
Public(k) == <<"public", k>>

ParaIds == {CfgParaId(c) : c \in Configs}
RelayParents == {"h1", "h2"}

\* ActiveLeavesUpdate.activated: lists of distinct relay parents
Batches ==
    {<<>>} \cup {<<h>> : h \in RelayParents}
           \cup {b \in RelayParents \X RelayParents : b[1] # b[2]}

\* CoreState
Free == [kind |-> "Free", para_id |-> None]
Scheduled(p) == [kind |-> "Scheduled", para_id |-> p]
Occupied(p) == [kind |-> "Occupied", para_id |-> p]
CoreStates == {Free, Occupied(1)} \cup {Scheduled(p) : p \in ParaIds}

NoCore == [kind |-> "NoCore", para_id |-> None]

\* The relay chain state at a relay parent, as the runtime API answers it.
NValidatorsAt(h) == IF h = "h1" THEN 2 ELSE 3
PersistedAt(h, p) == <<"pvd", h, p>>
ValidationDataAt(h, p) == [persisted |-> PersistedAt(h, p)]

\* The collation a configuration's collator builds on a relay parent, when
\* it builds one; its PoV and the data of its commitments.
CollationOf(c, h) == <<"collation", c, h>>
PoVOf(c) == <<"pov", c>>
\* CandidateCommitments that leave the HRMP watermark at its default.
CommitmentsOfDefaultWatermark(c) ==
    [upward_messages |-> <<"upward_messages", c>>,
     horizontal_messages |-> <<"horizontal_messages", c>>,
     new_validation_code |-> <<"new_validation_code", c>>,
     head_data |-> <<"head_data", c>>,
     processed_downward_messages |-> <<"processed_downward_messages", c>>,
     hrmp_watermark |-> <<"hrmp_watermark", <<>>>>]

\* CandidateCommitments { .. }: six fields, each moved out of the collation.
CommitmentsOf(c) ==
    [upward_messages |-> <<"upward_messages", c>>,
     horizontal_messages |-> <<"horizontal_messages", c>>,
     new_validation_code |-> <<"new_validation_code", c>>,
     head_data |-> <<"head_data", c>>,
     processed_downward_messages |-> <<"processed_downward_messages", c>>,
     hrmp_watermark |-> <<"hrmp_watermark", c>>]

\* Hashing, signing and the erasure root are injective constructors.
Hash(x) == <<"hash", x>>
Sign(k, payload) == <<"sig", k, payload>>
collator_signature_payload(relay_parent, para_id, pvd_hash, pov_hash) ==
    <<relay_parent, para_id, pvd_hash, pov_hash>>
erasure_root(n_validators, persisted, pov) ==
    <<"root", n_validators, persisted, pov>>

NoMsg == <<>>

(***************************************************************************)
(* State.                                                                  *)
(***************************************************************************)
VARIABLES
    config,         \* self.config: None or the stored configuration
    loop,           \* the actor loop: "select", "handling", "exited"
    logged,         \* what the loop has logged with tracing::warn!/error!
    activated,      \* relay parents of the batch still to handle
    hpc,            \* where handle_new_activations stands
    core,           \* the scheduled core in hand
    n_validators,   \* validators.len() of the relay parent in hand
    tasks,          \* the builder tasks, in spawn order
    chan,           \* the completion channel: tasks whose message waits
    collations_generated_total,
    outbound        \* messages passed to ctx.send_message

loop_vars == <<config, loop, logged>>
handler_vars == <<activated, hpc, core, n_validators>>
task_vars == <<tasks, chan, collations_generated_total>>
subsystem_vars == <<loop_vars, handler_vars, task_vars, outbound>>

\* xcm-executor: one Assets value and one call of saturating_take or min.
VARIABLES
    assets_self,    \* the Assets the method is called on (self)
    assets_arg,     \* the `assets` argument, a list of MultiAsset
    assets_before,  \* self as it was when the call was made
    assets_result,  \* the Assets the call returned
    assets_call     \* "none", "saturating_take" or "min"

assets_vars ==
    <<assets_self, assets_arg, assets_before, assets_result, assets_call>>

\* Assets::default()
AssetsDefault == [fungible |-> [i \in {} |-> 0], non_fungible |-> {}]

AssetsIdle ==
    /\ assets_self = AssetsDefault
    /\ assets_arg = <<>>
    /\ assets_before = AssetsDefault
    /\ assets_result = AssetsDefault
    /\ assets_call = "none"

\* GRANDPA voting rule: one call of PauseAfterBlockFor::restrict_vote.
VARIABLES
    vote_args,      \* the rule (N, M), the three headers and the backend
    vote_result,    \* the Option the call returned
    vote_call       \* "none" or "restrict_vote"

vote_vars == <<vote_args, vote_result, vote_call>>

\* Option::None of restrict_vote
NoVote == <<>>

VoteIdle ==
    /\ vote_args = [rule |-> <<0, 0>>, base |-> 0, best_target |-> 0,
                    current_target |-> 0, backend |-> "ok"]
    /\ vote_result = NoVote
    /\ vote_call = "none"

\* subsystem-util: a ConnectionRequests and the calls made on it.
VARIABLES
    connection_requests,    \* the struct: id_map and requests
    issued,                 \* how many ConnectionRequest values were made
    called                  \* the last call that returned, with its outcome

discovery_vars == <<connection_requests, issued, called>>

\* ConnectionRequests::default()
ConnectionRequestsDefault ==
    [id_map |-> [h \in {} |-> 0], requests |-> [t \in {} |-> 0]]

DiscoveryIdle ==
    /\ connection_requests = ConnectionRequestsDefault
    /\ issued = 0
    /\ called = <<"none">>

\* bitfield-signing: one BitfieldSigningJob, the clock, and what it sent.
VARIABLES
    job,            \* the job: its relay parent, where it stands, its locals
    clock,          \* Instant::now(), in milliseconds
    job_sent        \* the messages the job has sent, each with its time

job_vars == <<job, clock, job_sent>>

\* No job has been started.
JobIdle ==
    /\ job = [relay_parent |-> "h1", pc |-> "none", started |-> 0,
              wait_until |-> 0, availability_cores |-> <<>>,
              results |-> <<>>, constructed |-> "none", bitfield |-> <<>>,
              bitfields_signed_total |-> 0, returned |-> "none"]
    /\ clock = 0
    /\ job_sent = <<>>

\* What is not the collation-generation subsystem's.
other_vars == <<assets_vars, vote_vars, discovery_vars, job_vars>>
OtherIdle == AssetsIdle /\ VoteIdle /\ DiscoveryIdle /\ JobIdle

\* What each of the other components leaves alone, and where that stands.
beside_assets_vars == <<subsystem_vars, vote_vars, discovery_vars, job_vars>>
beside_vote_vars == <<subsystem_vars, assets_vars, discovery_vars, job_vars>>
beside_discovery_vars == <<subsystem_vars, assets_vars, vote_vars, job_vars>>
beside_job_vars == <<subsystem_vars, assets_vars, vote_vars, discovery_vars>>

vars == <<loop_vars, handler_vars, task_vars, outbound, other_vars>>

SubsystemInit ==
    /\ config = None
    /\ loop = "select"
    /\ logged = {}
    /\ activated = <<>>
    /\ hpc = "idle"
    /\ core = NoCore
    /\ n_validators = 0
    /\ tasks = <<>>
    /\ chan = <<>>
    /\ collations_generated_total = 0
    /\ outbound = <<>>

Init == SubsystemInit /\ OtherIdle

BesideAssetsIdle == SubsystemInit /\ VoteIdle /\ DiscoveryIdle /\ JobIdle
BesideVoteIdle == SubsystemInit /\ AssetsIdle /\ DiscoveryIdle /\ JobIdle
BesideDiscoveryIdle == SubsystemInit /\ AssetsIdle /\ VoteIdle /\ JobIdle
BesideJobIdle == SubsystemInit /\ AssetsIdle /\ VoteIdle /\ DiscoveryIdle

(***************************************************************************)
(* handle_new_activations.  hpc is the await the handler stands at:        *)
(*   "rp"             the head of the loop over the relay parents          *)
(*   "req_validators" the cores request is sent, the validators request    *)
(*                    is being sent                                        *)
(*   "join"           both requests are sent, join! awaits both answers    *)
(*   "core"           the head of the loop over the cores                  *)
(*   "await_vd"       the validation data request is sent and awaited      *)
(* The answer to the cores request is a list of cores of any states.  The  *)
(* handler reads it one core at a time and nothing it does depends on a    *)
(* core it has not reached, so the model draws each core when the loop     *)
(* over the cores reaches it.                                              *)
(***************************************************************************)
\* The requests sent and not yet answered.
Outstanding ==
    CASE hpc = "req_validators" -> {"availability_cores"}
      [] hpc = "join" -> {"availability_cores", "validators"}
      [] hpc = "await_vd" -> {"full_validation_data"}
      [] OTHER -> {}

\* The handler's locals once it has returned.
HandlerIdle ==
    /\ activated' = <<>>
    /\ hpc' = "idle"
    /\ core' = NoCore
    /\ n_validators' = 0

\* A handler failure that handle_incoming passes up, ending the loop.
HandlerReturnErrEndsLoop ==
    /\ HandlerIdle
    /\ loop' = "exited"
    /\ logged' = logged \cup {"failed to handle new activations"}
    /\ UNCHANGED config

\* `?` on a failed request or answer: the handler returns Err, which
\* handle_incoming logs before it returns false; the loop selects again.
HandlerReturnErr ==
    /\ HandlerIdle
    /\ loop' = "select"
    /\ logged' = logged \cup {"failed to handle new activations"}
    /\ UNCHANGED config

\* The handler goes on: nothing of the loop changes.
HandlerGoesOn == UNCHANGED loop_vars

\* A test that takes a Scheduled core of any para.
IsOursAnyPara(c) == c.kind = "Scheduled"

\* A test that takes a core of the configured para in any state.
IsOursAnyKind(c) == c.para_id = CfgParaId(config)

\* A core a collation is built on: Scheduled, and for the configured para.
IsOurs(c) ==
    /\ c.kind = "Scheduled"
    /\ c.para_id = CfgParaId(config)

\* for relay_parent in activated: the list is exhausted, return Ok(()).
HandlerReturnOk ==
    /\ loop = "handling" /\ hpc = "rp" /\ activated = <<>>
    /\ HandlerIdle
    /\ loop' = "select"
    /\ UNCHANGED <<config, logged, task_vars, outbound>>
    /\ UNCHANGED other_vars

\* request_availability_cores_ctx(relay_parent, ctx).await?
RequestCores(ok) ==
    /\ loop = "handling" /\ hpc = "rp" /\ activated # <<>>
    /\ IF ok
       THEN /\ hpc' = "req_validators"
            /\ HandlerGoesOn
            /\ UNCHANGED <<activated, core, n_validators>>
       ELSE HandlerReturnErr
    /\ UNCHANGED <<task_vars, outbound>>
    /\ UNCHANGED other_vars

\* A handler that awaits each answer where it asks: the cores are in hand
\* when the validators are asked for, and the loop over the cores starts as
\* soon as the validators have answered.
RequestValidatorsAwaitedInPlace(ok) ==
    /\ loop = "handling" /\ hpc = "req_validators"
    /\ IF ok
       THEN /\ n_validators' = NValidatorsAt(Head(activated))
            /\ hpc' = "core"
            /\ HandlerGoesOn
            /\ UNCHANGED <<activated, core>>
       ELSE HandlerReturnErr
    /\ UNCHANGED <<task_vars, outbound>>
    /\ UNCHANGED other_vars

\* request_validators_ctx(relay_parent, ctx).await?
RequestValidators(ok) ==
    /\ loop = "handling" /\ hpc = "req_validators"
    /\ IF ok
       THEN /\ hpc' = "join"
            /\ HandlerGoesOn
            /\ UNCHANGED <<activated, core, n_validators>>
       ELSE HandlerReturnErr
    /\ UNCHANGED <<task_vars, outbound>>
    /\ UNCHANGED other_vars

\* join!(..) completes with the two answers; availability_cores?? and
\* validators??.len().  okc, okv: whether each answer is Ok.
HandlerJoin(okc, okv) ==
    /\ loop = "handling" /\ hpc = "join"
    /\ IF okc /\ okv
       THEN /\ n_validators' = NValidatorsAt(Head(activated))
            /\ hpc' = "core"
            /\ HandlerGoesOn
            /\ UNCHANGED <<activated, core>>
       ELSE HandlerReturnErr
    /\ UNCHANGED <<task_vars, outbound>>
    /\ UNCHANGED other_vars

\* for core in availability_cores: the list is exhausted, next relay parent.
HandlerRelayParentDone ==
    /\ loop = "handling" /\ hpc = "core"
    /\ activated' = Tail(activated)
    /\ hpc' = "rp"
    /\ n_validators' = 0
    /\ UNCHANGED <<loop_vars, core, task_vars, outbound>>
    /\ UNCHANGED other_vars

\* The next core is c.  The match on the core and the para id test:
\* `continue`.
HandlerSkipCore(c) ==
    /\ loop = "handling" /\ hpc = "core"
    /\ ~IsOurs(c)
    /\ UNCHANGED vars

\* The next core is c, one of ours:
\* request_full_validation_data_ctx(relay_parent, para_id, Free, ctx).await?
RequestValidationData(c, ok) ==
    /\ loop = "handling" /\ hpc = "core"
    /\ IsOurs(c)
    /\ Len(tasks) < MaxTasks
    /\ IF ok
       THEN /\ hpc' = "await_vd"
            /\ core' = c
            /\ HandlerGoesOn
            /\ UNCHANGED <<activated, n_validators>>
       ELSE HandlerReturnErr
    /\ UNCHANGED <<task_vars, outbound>>
    /\ UNCHANGED other_vars

\* .await?? on the validation data failed.
HandlerValidationDataErr ==
    /\ loop = "handling" /\ hpc = "await_vd"
    /\ HandlerReturnErr
    /\ UNCHANGED <<task_vars, outbound>>
    /\ UNCHANGED other_vars

\* A `continue` that leaves the loop over the cores and goes on with the
\* next relay parent.
HandlerValidationDataNoneNextRelayParent ==
    /\ loop = "handling" /\ hpc = "await_vd"
    /\ activated' = Tail(activated)
    /\ hpc' = "rp"
    /\ core' = NoCore
    /\ n_validators' = 0
    /\ UNCHANGED <<loop_vars, task_vars, outbound>>
    /\ UNCHANGED other_vars

\* A handler for which missing validation data is a failure.
HandlerValidationDataNoneFails ==
    /\ loop = "handling" /\ hpc = "await_vd"
    /\ HandlerReturnErr
    /\ UNCHANGED <<task_vars, outbound>>
    /\ UNCHANGED other_vars

\* The answer is None => continue
HandlerValidationDataNone ==
    /\ loop = "handling" /\ hpc = "await_vd"
    /\ hpc' = "core"
    /\ core' = NoCore
    /\ UNCHANGED <<loop_vars, activated, n_validators, task_vars, outbound>>
    /\ UNCHANGED other_vars

\* A task that is handed the last relay parent of the batch instead of the
\* one in hand.
NewTaskLastRelayParent(validation_data) ==
    [relay_parent |-> activated[Len(activated)],
     para_id |-> core.para_id,
     validation_data |-> validation_data,
     n_validators |-> n_validators,
     task_config |-> config,
     pc |-> "collate",
     collation |-> <<>>,
     msg |-> NoMsg,
     sends |-> 0,
     forwarded |-> 0]

\* The builder task as ctx.spawn receives it: the closure owns the relay
\* parent, the scheduled core (its para id), the validation data, the
\* validator count and a clone of the configuration.
NewTask(validation_data) ==
    [relay_parent |-> Head(activated),
     para_id |-> core.para_id,
     validation_data |-> validation_data,
     n_validators |-> n_validators,
     task_config |-> config,
     pc |-> "collate",
     collation |-> <<>>,
     msg |-> NoMsg,
     sends |-> 0,
     forwarded |-> 0]

\* A handler that has the request for the next matching core out already
\* when the answer for the present one arrives and its task is spawned.
HandlerSpawnWithNextRequestOut(ok) ==
    /\ loop = "handling" /\ hpc = "await_vd"
    /\ IF ok
       THEN /\ tasks' = Append(tasks,
                   NewTask(ValidationDataAt(Head(activated), core.para_id)))
            /\ HandlerGoesOn
            /\ UNCHANGED <<activated, hpc, core, n_validators>>
       ELSE HandlerReturnErr /\ UNCHANGED tasks
    /\ UNCHANGED <<chan, collations_generated_total, outbound>>
    /\ UNCHANGED other_vars

\* The answer is Some(v), the relay chain's validation data for the relay
\* parent and para asked for: ctx.spawn(..).await?
HandlerSpawn(ok) ==
    /\ loop = "handling" /\ hpc = "await_vd"
    /\ IF ok
       THEN /\ tasks' = Append(tasks,
                   NewTask(ValidationDataAt(Head(activated), core.para_id)))
            /\ hpc' = "core"
            /\ core' = NoCore
            /\ HandlerGoesOn
            /\ UNCHANGED <<activated, n_validators>>
       ELSE HandlerReturnErr /\ UNCHANGED tasks
    /\ UNCHANGED <<chan, collations_generated_total, outbound>>
    /\ UNCHANGED other_vars

(***************************************************************************)
(* The collation builder task (the future handed to ctx.spawn).            *)
(***************************************************************************)
TaskIds == 1..Len(tasks)

\* A receipt whose signature does not cover the PoV hash.
ReceiptPoVNotSigned(k, c) ==
    LET persisted_validation_data_hash == Hash(k.validation_data.persisted)
        pov_hash == Hash(PoVOf(c))
    IN [commitments_hash |-> Hash(CommitmentsOf(c)),
        descriptor |->
           [signature |-> Sign(CfgKey(k.task_config),
                               <<k.relay_parent, k.para_id,
                                 persisted_validation_data_hash>>),
            para_id |-> k.para_id,
            relay_parent |-> k.relay_parent,
            collator |-> Public(CfgKey(k.task_config)),
            persisted_validation_data_hash |->
                persisted_validation_data_hash,
            pov_hash |-> pov_hash,
            erasure_root |-> erasure_root(k.n_validators,
                                          k.validation_data.persisted,
                                          PoVOf(c))]]

\* The CandidateReceipt of lines 286-297, for task record k having
\* produced collation c.
Receipt(k, c) ==
    LET persisted_validation_data_hash == Hash(k.validation_data.persisted)
        pov_hash == Hash(PoVOf(c))
        signature_payload ==
            collator_signature_payload(k.relay_parent, k.para_id,
                                       persisted_validation_data_hash,
                                       pov_hash)
    IN [commitments_hash |-> Hash(CommitmentsOf(c)),
        descriptor |->
           [signature |-> Sign(CfgKey(k.task_config), signature_payload),
            para_id |-> k.para_id,
            relay_parent |-> k.relay_parent,
            collator |-> Public(CfgKey(k.task_config)),
            persisted_validation_data_hash |->
                persisted_validation_data_hash,
            pov_hash |-> pov_hash,
            erasure_root |-> erasure_root(k.n_validators,
                                          k.validation_data.persisted,
                                          PoVOf(c))]]

\* AllMessages::CollatorProtocol(DistributeCollation(ccr, pov))
DistributeCollation(k, c) ==
    [receipt |-> Receipt(k, c), pov |-> PoVOf(c)]

\* A task that counts a collation before it knows the collator made one.
TaskCollateCountsNone(t, some) ==
    /\ t \in TaskIds /\ tasks[t].pc = "collate"
    /\ IF some
       THEN tasks' = [tasks EXCEPT
                ![t].collation = CollationOf(tasks[t].task_config,
                                             tasks[t].relay_parent),
                ![t].pc = "build"]
       ELSE tasks' = [tasks EXCEPT ![t].pc = "done"]
    /\ collations_generated_total' =
          IF some THEN collations_generated_total
                  ELSE collations_generated_total + 1
    /\ UNCHANGED <<loop_vars, handler_vars, chan, outbound>>
    /\ UNCHANGED other_vars

\* (task_config.collator)(relay_parent, &validation_data).await: Some
\* collation, or None and the task returns.
TaskCollate(t, some) ==
    /\ t \in TaskIds /\ tasks[t].pc = "collate"
    /\ IF some
       THEN tasks' = [tasks EXCEPT
                ![t].collation = CollationOf(tasks[t].task_config,
                                             tasks[t].relay_parent),
                ![t].pc = "build"]
       ELSE tasks' = [tasks EXCEPT ![t].pc = "done"]
    /\ UNCHANGED <<loop_vars, handler_vars, chan,
                   collations_generated_total, outbound>>
    /\ UNCHANGED other_vars

\* A task that counts its collation before the erasure root is known.
TaskBuildCountsFailure(t, ok) ==
    /\ t \in TaskIds /\ tasks[t].pc = "build"
    /\ IF ok
       THEN tasks' = [tasks EXCEPT
                ![t].msg = DistributeCollation(tasks[t],
                                               tasks[t].collation),
                ![t].pc = "send"]
       ELSE tasks' = [tasks EXCEPT ![t].pc = "done"]
    /\ collations_generated_total' = collations_generated_total + 1
    /\ UNCHANGED <<loop_vars, handler_vars, chan, outbound>>
    /\ UNCHANGED other_vars

\* A task that signs and assembles its receipt whether or not the erasure
\* root could be computed.
TaskBuildSignsFirst(t, ok) ==
    /\ t \in TaskIds /\ tasks[t].pc = "build"
    /\ IF ok
       THEN /\ tasks' = [tasks EXCEPT
                   ![t].msg = DistributeCollation(tasks[t],
                                                  tasks[t].collation),
                   ![t].pc = "send"]
            /\ collations_generated_total' = collations_generated_total + 1
       ELSE /\ tasks' = [tasks EXCEPT
                   ![t].msg = DistributeCollation(tasks[t],
                                                  tasks[t].collation),
                   ![t].pc = "done"]
            /\ UNCHANGED collations_generated_total
    /\ UNCHANGED <<loop_vars, handler_vars, chan, outbound>>
    /\ UNCHANGED other_vars

\* A task that assembles its receipt and leaves the counter alone.
TaskBuildCountsNothing(t, ok) ==
    /\ t \in TaskIds /\ tasks[t].pc = "build"
    /\ IF ok
       THEN tasks' = [tasks EXCEPT
                   ![t].msg = DistributeCollation(tasks[t],
                                                  tasks[t].collation),
                   ![t].pc = "send"]
       ELSE tasks' = [tasks EXCEPT ![t].pc = "done"]
    /\ UNCHANGED collations_generated_total
    /\ UNCHANGED <<loop_vars, handler_vars, chan, outbound>>
    /\ UNCHANGED other_vars

\* The erasure root, the commitments, the receipt and the counter: the
\* stretch of the task between its two awaits.  `ok` is whether
\* obtain_chunks_v1 succeeded.
TaskBuild(t, ok) ==
    /\ t \in TaskIds /\ tasks[t].pc = "build"
    /\ IF ok
       THEN /\ tasks' = [tasks EXCEPT
                   ![t].msg = DistributeCollation(tasks[t],
                                                  tasks[t].collation),
                   ![t].pc = "send"]
            /\ collations_generated_total' = collations_generated_total + 1
       ELSE /\ tasks' = [tasks EXCEPT ![t].pc = "done"]
            /\ UNCHANGED collations_generated_total
    /\ UNCHANGED <<loop_vars, handler_vars, chan, outbound>>
    /\ UNCHANGED other_vars

\* A task that goes back to its collator when the send fails.
TaskSendRetries(t) ==
    /\ t \in TaskIds /\ tasks[t].pc = "send"
    /\ IF loop = "exited"
       THEN /\ tasks' = [tasks EXCEPT ![t].pc = "collate"]
            /\ UNCHANGED chan
       ELSE /\ tasks' = [tasks EXCEPT ![t].pc = "flush",
                                      ![t].sends = @ + 1]
            /\ chan' = Append(chan, t)
    /\ UNCHANGED <<loop_vars, handler_vars, collations_generated_total,
                   outbound>>
    /\ UNCHANGED other_vars

\* A task that gives up its message once the handler has failed.
TaskSendUnlessHandlerFailed(t) ==
    /\ t \in TaskIds /\ tasks[t].pc = "send"
    /\ IF loop = "exited" \/ "failed to handle new activations" \in logged
       THEN /\ tasks' = [tasks EXCEPT ![t].pc = "done"]
            /\ UNCHANGED chan
       ELSE /\ tasks' = [tasks EXCEPT ![t].pc = "flush",
                                      ![t].sends = @ + 1]
            /\ chan' = Append(chan, t)
    /\ UNCHANGED <<loop_vars, handler_vars, collations_generated_total,
                   outbound>>
    /\ UNCHANGED other_vars

\* task_sender.send(msg): the message enters the channel, unless the
\* receiver is gone and the send fails.
TaskSend(t) ==
    /\ t \in TaskIds /\ tasks[t].pc = "send"
    /\ IF loop = "exited"
       THEN /\ tasks' = [tasks EXCEPT ![t].pc = "done"]
            /\ UNCHANGED chan
       ELSE /\ tasks' = [tasks EXCEPT ![t].pc = "flush",
                                      ![t].sends = @ + 1]
            /\ chan' = Append(chan, t)
    /\ UNCHANGED <<loop_vars, handler_vars, collations_generated_total,
                   outbound>>
    /\ UNCHANGED other_vars

\* A send that completes as soon as the message is in the channel, as on a
\* channel with room to spare.
TaskFlushBuffered(t) ==
    /\ t \in TaskIds /\ tasks[t].pc = "flush"
    /\ tasks' = [tasks EXCEPT ![t].pc = "done"]
    /\ UNCHANGED <<loop_vars, handler_vars, chan,
                   collations_generated_total, outbound>>
    /\ UNCHANGED other_vars

\* A task that sends again once its send has completed.
TaskFlushSendsAgain(t) ==
    /\ t \in TaskIds /\ tasks[t].pc = "flush"
    /\ \A i \in DOMAIN chan : chan[i] # t
    /\ tasks' = [tasks EXCEPT ![t].pc = "send"]
    /\ UNCHANGED <<loop_vars, handler_vars, chan,
                   collations_generated_total, outbound>>
    /\ UNCHANGED other_vars

\* .await on the send: it completes once the receiver has taken the
\* message, or has been dropped.
TaskFlush(t) ==
    /\ t \in TaskIds /\ tasks[t].pc = "flush"
    /\ \A i \in DOMAIN chan : chan[i] # t
    /\ tasks' = [tasks EXCEPT ![t].pc = "done"]
    /\ UNCHANGED <<loop_vars, handler_vars, chan,
                   collations_generated_total, outbound>>
    /\ UNCHANGED other_vars

(***************************************************************************)
(* CollationGenerationSubsystem::run and handle_incoming.                  *)
(***************************************************************************)
\* An Initialize that always stores what it carries.
InitializedLastWins(c) == c

\* Communication { msg: Initialize(config) }: the configuration after it.
Initialized(c) == IF config # None THEN config ELSE c

RecvInitialize(c) ==
    /\ loop = "select"
    /\ config' = Initialized(c)
    /\ logged' = IF config # None
                 THEN logged \cup {"double initialization"}
                 ELSE logged
    /\ UNCHANGED <<loop, handler_vars, task_vars, outbound>>
    /\ UNCHANGED other_vars

\* An ActiveLeaves that starts the handler whether or not a configuration
\* is stored.
RecvActiveLeavesUnconfigured(b) ==
    /\ loop = "select"
    /\ loop' = "handling"
    /\ activated' = b
    /\ hpc' = "rp"
    /\ UNCHANGED <<config, logged, core, n_validators, task_vars, outbound>>
    /\ UNCHANGED other_vars

\* Signal(ActiveLeaves(ActiveLeavesUpdate { activated, .. }))
RecvActiveLeaves(b) ==
    /\ loop = "select"
    /\ IF config # None
       THEN /\ loop' = "handling"
            /\ activated' = b
            /\ hpc' = "rp"
       ELSE UNCHANGED <<loop, activated, hpc>>
    /\ UNCHANGED <<config, logged, core, n_validators, task_vars, outbound>>
    /\ UNCHANGED other_vars

\* A Conclude after which the receiver stays alive, unread.
RecvConcludeKeepsReceiver ==
    /\ loop = "select"
    /\ loop' = "exited"
    /\ UNCHANGED <<config, logged, handler_vars, task_vars, outbound>>
    /\ UNCHANGED other_vars

\* A Conclude that first forwards the completion waiting at the head of the
\* channel.
RecvConcludeDrainsChannel ==
    /\ loop = "select"
    /\ loop' = "exited"
    /\ chan' = <<>>
    /\ IF chan # <<>>
       THEN /\ outbound' = Append(outbound, tasks[Head(chan)].msg)
            /\ tasks' = [tasks EXCEPT ![Head(chan)].forwarded = @ + 1]
       ELSE UNCHANGED <<outbound, tasks>>
    /\ UNCHANGED <<config, logged, handler_vars,
                   collations_generated_total>>
    /\ UNCHANGED other_vars

\* Signal(Conclude) => true: run breaks out of its loop and returns, which
\* drops the receiver with whatever the channel holds.
RecvConclude ==
    /\ loop = "select"
    /\ loop' = "exited"
    /\ chan' = <<>>
    /\ UNCHANGED <<config, logged, handler_vars, tasks,
                   collations_generated_total, outbound>>
    /\ UNCHANGED other_vars

\* Signal(BlockFinalized(_)) => false
RecvBlockFinalized ==
    /\ loop = "select"
    /\ UNCHANGED vars

\* A receive error that is logged and survived.
RecvErrGoesOn ==
    /\ loop = "select"
    /\ logged' = logged \cup {"error receiving message"}
    /\ UNCHANGED <<config, loop, handler_vars, task_vars, outbound>>
    /\ UNCHANGED other_vars

\* Err(err) => true
RecvErr ==
    /\ loop = "select"
    /\ loop' = "exited"
    /\ logged' = logged \cup {"error receiving message"}
    /\ chan' = <<>>
    /\ UNCHANGED <<config, handler_vars, tasks, collations_generated_total,
                   outbound>>
    /\ UNCHANGED other_vars

\* A loop that forwards the message at the head of the channel and leaves it
\* there.
ForwardCompletionKeepsMessage ==
    /\ loop = "select" /\ chan # <<>>
    /\ chan' = chan
    /\ outbound' = Append(outbound, tasks[Head(chan)].msg)
    /\ tasks' = [tasks EXCEPT ![Head(chan)].forwarded = @ + 1]
    /\ UNCHANGED <<loop_vars, handler_vars, collations_generated_total>>
    /\ UNCHANGED other_vars

\* A loop that takes the message at the head of the channel and does not
\* pass it on.
ForwardCompletionDrops ==
    /\ loop = "select" /\ chan # <<>>
    /\ chan' = Tail(chan)
    /\ UNCHANGED <<loop_vars, handler_vars, tasks,
                   collations_generated_total, outbound>>
    /\ UNCHANGED other_vars

\* A loop that takes completions while its handler is running.
ForwardCompletionWhileHandling ==
    /\ loop \in {"select", "handling"} /\ chan # <<>>
    /\ chan' = Tail(chan)
    /\ outbound' = Append(outbound, tasks[Head(chan)].msg)
    /\ tasks' = [tasks EXCEPT ![Head(chan)].forwarded = @ + 1]
    /\ UNCHANGED <<loop_vars, handler_vars, collations_generated_total>>
    /\ UNCHANGED other_vars

\* msg = receiver.next() => ctx.send_message(msg).await
ForwardCompletion ==
    /\ loop = "select" /\ chan # <<>>
    /\ chan' = Tail(chan)
    /\ outbound' = Append(outbound, tasks[Head(chan)].msg)
    /\ tasks' = [tasks EXCEPT ![Head(chan)].forwarded = @ + 1]
    /\ UNCHANGED <<loop_vars, handler_vars, collations_generated_total>>
    /\ UNCHANGED other_vars

(***************************************************************************)
(* Specifications.                                                         *)
(***************************************************************************)
Next ==
    \/ \E c \in Configs : RecvInitialize(c)
    \/ \E b \in Batches : RecvActiveLeaves(b)
    \/ RecvConclude
    \/ RecvBlockFinalized
    \/ RecvErr
    \/ ForwardCompletion
    \/ HandlerReturnOk
    \/ \E ok \in BOOLEAN : RequestCores(ok)
    \/ \E ok \in BOOLEAN : RequestValidators(ok)
    \/ \E okc \in BOOLEAN, okv \in BOOLEAN : HandlerJoin(okc, okv)
    \/ HandlerRelayParentDone
    \/ \E c \in CoreStates : HandlerSkipCore(c)
    \/ \E c \in CoreStates, ok \in BOOLEAN : RequestValidationData(c, ok)
    \/ HandlerValidationDataErr
    \/ HandlerValidationDataNone
    \/ \E ok \in BOOLEAN : HandlerSpawn(ok)
    \/ \E t \in 1..MaxTasks, some \in BOOLEAN : TaskCollate(t, some)
    \/ \E t \in 1..MaxTasks, ok \in BOOLEAN : TaskBuild(t, ok)
    \/ \E t \in 1..MaxTasks : TaskSend(t)
    \/ \E t \in 1..MaxTasks : TaskFlush(t)

Spec == Init /\ [][Next]_vars

\* A step of builder task t.
TaskStep(t) ==
    \/ \E some \in BOOLEAN : TaskCollate(t, some)
    \/ \E ok \in BOOLEAN : TaskBuild(t, ok)
    \/ TaskSend(t)
    \/ TaskFlush(t)

\* The executor runs every spawned task that can take a step.
FairSpec == Spec /\ \A t \in 1..MaxTasks : WF_vars(TaskStep(t))

\* The runs in which no Conclude and no transport failure occurs, every
\* request is answered successfully with validation data available, the
\* collator always yields a collation and erasure coding succeeds.
HappyHandler ==
    \/ HandlerReturnOk
    \/ RequestCores(TRUE)
    \/ RequestValidators(TRUE)
    \/ HandlerJoin(TRUE, TRUE)
    \/ HandlerRelayParentDone
    \/ \E c \in CoreStates : RequestValidationData(c, TRUE)
    \/ HandlerSpawn(TRUE)

HappyTask(t) ==
    \/ TaskCollate(t, TRUE)
    \/ TaskBuild(t, TRUE)
    \/ TaskSend(t)
    \/ TaskFlush(t)

HappyNext ==
    \/ \E c \in Configs : RecvInitialize(c)
    \/ \E b \in Batches : RecvActiveLeaves(b)
    \/ RecvBlockFinalized
    \/ ForwardCompletion
    \/ \E c \in CoreStates : HandlerSkipCore(c)
    \/ HandlerReturnOk
    \/ RequestCores(TRUE)
    \/ RequestValidators(TRUE)
    \/ HandlerJoin(TRUE, TRUE)
    \/ HandlerRelayParentDone
    \/ \E c \in CoreStates : RequestValidationData(c, TRUE)
    \/ HandlerSpawn(TRUE)
    \/ \E t \in 1..MaxTasks : TaskCollate(t, TRUE)
    \/ \E t \in 1..MaxTasks : TaskBuild(t, TRUE)
    \/ \E t \in 1..MaxTasks : TaskSend(t)
    \/ \E t \in 1..MaxTasks : TaskFlush(t)

\* The runtime answers, the executor runs the tasks, and select! takes a
\* ready completion again and again (it polls its branches in random
\* order).
HappySpec ==
    /\ Init /\ [][HappyNext]_vars
    /\ WF_vars(HappyHandler)
    /\ \A t \in 1..MaxTasks : WF_vars(HappyTask(t))
    /\ SF_vars(ForwardCompletion)

\* A step of handle_new_activations, whatever the answers are.
HandlerStep ==
    \/ HandlerReturnOk
    \/ \E ok \in BOOLEAN : RequestCores(ok)
    \/ \E ok \in BOOLEAN : RequestValidators(ok)
    \/ \E okc \in BOOLEAN, okv \in BOOLEAN : HandlerJoin(okc, okv)
    \/ HandlerRelayParentDone
    \/ \E c \in CoreStates, ok \in BOOLEAN : RequestValidationData(c, ok)
    \/ HandlerValidationDataErr
    \/ HandlerValidationDataNone
    \/ \E ok \in BOOLEAN : HandlerSpawn(ok)

\* A loop whose select takes a ready completion only if it stays ready: one
\* that looks at the control source first whenever it selects.
LoopWeaklyFairSpec ==
    /\ Spec
    /\ WF_vars(HandlerStep)
    /\ SF_vars(HandlerRelayParentDone)
    /\ \A t \in 1..MaxTasks : WF_vars(TaskStep(t))
    /\ WF_vars(ForwardCompletion)

\* Every run of the subsystem in which the runtime answers each request, the
\* list of cores it answers with is finite (the loop over the cores comes
\* to its end), the executor runs the tasks, and select! (which polls its
\* two branches in random order) takes a completion that is ready again and
\* again.
LoopFairSpec ==
    /\ Spec
    /\ WF_vars(HandlerStep)
    /\ SF_vars(HandlerRelayParentDone)
    /\ \A t \in 1..MaxTasks : WF_vars(TaskStep(t))
    /\ SF_vars(ForwardCompletion)

(***************************************************************************)
(* The claims.                                                             *)
(***************************************************************************)
\* The handler has met one of our cores of relay parent h (its validation
\* data request is out) when n tasks had been spawned.
PairMet(n, h) ==
    /\ hpc = "await_vd"
    /\ Len(tasks) = n
    /\ Head(activated) = h

\* The task spawned for that core is the (n+1)th, and the loop has forwarded
\* its message once.
PairForwarded(n, h) ==
    /\ Len(tasks) > n
    /\ tasks[n + 1].relay_parent = h
    /\ tasks[n + 1].forwarded = 1

\* C1: in the runs without Conclude or failure, where every request is
\* answered with validation data, the collator always yields and erasure
\* coding succeeds, every (activated relay parent, core Scheduled for the
\* configured para) pair gets exactly one builder task, and the message of
\* that task is eventually forwarded by the loop, once and never twice.
C1_ExactlyOneDistribute ==
    /\ [](\A t \in TaskIds : tasks[t].forwarded <= 1)
    /\ [](Len(outbound) <= Len(tasks))
    /\ [][(hpc = "await_vd" /\ hpc' # "await_vd")
             => Len(tasks') = Len(tasks) + 1]_vars
    /\ [][Len(tasks') # Len(tasks) => hpc = "await_vd"]_vars
    /\ \A n \in 0..(MaxTasks - 1) : \A h \in RelayParents :
          PairMet(n, h) ~> PairForwarded(n, h)

\* Two of our cores of one relay parent, each with its message forwarded.
C1_Witness ==
    /\ Len(tasks) = 2
    /\ tasks[1].relay_parent = tasks[2].relay_parent
    /\ tasks[1].forwarded = 1 /\ tasks[2].forwarded = 1
    /\ Len(outbound) = 2

\* The descriptor of task t's receipt, once the task has assembled it.
Built == {t \in TaskIds : tasks[t].msg # NoMsg}
DescriptorOf(t) == tasks[t].msg.receipt.descriptor

\* C2: a builder task is spawned only at a core that is Scheduled for the
\* configured para: the task list grows only while the handler holds such a
\* core, each task carries that core's para id, which is the configured
\* one, and so does every message forwarded; cores of any other state or
\* para add no task and no message.
C2_TasksOnlyForOurCores ==
    /\ [](\A t \in TaskIds :
             /\ tasks[t].task_config = config
             /\ tasks[t].para_id = CfgParaId(config))
    /\ [](\A i \in DOMAIN outbound :
             outbound[i].receipt.descriptor.para_id = CfgParaId(config))
    /\ [][Len(tasks') # Len(tasks)
             => /\ core.kind = "Scheduled"
                /\ core.para_id = CfgParaId(config)
                /\ tasks' = Append(tasks, tasks'[Len(tasks')])
                /\ tasks'[Len(tasks')].para_id = core.para_id]_vars

\* The second configuration is stored, and a task was spawned at one of its
\* cores while the handler goes on through the cores.
C2_Witness ==
    /\ config = 2
    /\ loop = "handling" /\ hpc = "core"
    /\ Len(tasks) = 1
    /\ tasks[1].para_id = 2

\* C3: once stored, the configuration never changes: an Initialize received
\* when one is stored leaves it and leaves the loop running, so every task
\* and every candidate forwarded carries the para id and the collator key
\* of the configuration stored first.
C3_FirstConfigurationWins ==
    /\ [][config # None => config' = config]_vars
    /\ [][(\E c \in Configs : RecvInitialize(c))
             => /\ loop' = "select"
                /\ config' \in Configs
                /\ config # None => config' = config]_vars
    /\ [](\A t \in TaskIds : tasks[t].task_config = config)
    /\ [](\A i \in DOMAIN outbound :
             LET d == outbound[i].receipt.descriptor
             IN /\ d.para_id = CfgParaId(config)
                /\ d.collator = Public(CfgKey(config))
                /\ d.signature[2] = CfgKey(config))

\* The first configuration is stored, a later Initialize was refused, and a
\* candidate was forwarded.
C3_Witness ==
    /\ config = 1
    /\ "double initialization" \in logged
    /\ Len(outbound) >= 1
    /\ outbound[1].receipt.descriptor.collator = Public(CfgKey(1))

C5_AtMostOneSend ==
    /\ [](\A t \in TaskIds :
             /\ tasks[t].sends <= 1
             /\ tasks[t].forwarded <= tasks[t].sends)
    /\ [](Len(chan) <= Len(tasks))
    /\ [][\A t \in TaskIds :
             tasks[t].msg # NoMsg => tasks'[t].msg = tasks[t].msg]_vars
    /\ [][Len(tasks') <= Len(tasks) + 1]_vars

\* Two tasks of one relay parent have each sent once and ended.
C5_Witness ==
    /\ Len(tasks) = 2
    /\ tasks[1].relay_parent = tasks[2].relay_parent
    /\ \A t \in TaskIds : tasks[t].sends = 1 /\ tasks[t].pc = "done"

\* C6: a full-validation-data request is out only for a core that is
\* Scheduled for the configured para: never for an Occupied or Free core,
\* never for a core Scheduled for another para.
C6_ValidationDataOnlyForOurCores ==
    "full_validation_data" \in Outstanding
        => /\ core.kind = "Scheduled"
           /\ core.para_id = CfgParaId(config)
           /\ config # None

\* The request is out for a core of the first configuration's para.
C6_Witness ==
    /\ "full_validation_data" \in Outstanding
    /\ config = 1
    /\ core = Scheduled(1)

\* C7: the step in which a task's collator returns None ends that task and
\* changes nothing else: nothing enters the channel, the counter stays, the
\* loop, the handler and the other tasks are untouched; a task ended so
\* has sent nothing and built no message.
C7_NoCollationNoEffect ==
    /\ [][\A t \in TaskIds :
             (tasks[t].pc = "collate" /\ tasks'[t].pc = "done")
                => /\ chan' = chan
                   /\ collations_generated_total' =
                         collations_generated_total
                   /\ outbound' = outbound
                   /\ UNCHANGED loop_vars
                   /\ UNCHANGED handler_vars
                   /\ tasks' = [tasks EXCEPT ![t].pc = "done"]]_vars
    /\ [](\A t \in TaskIds :
             (tasks[t].pc = "done" /\ tasks[t].collation = <<>>)
                => /\ tasks[t].sends = 0
                   /\ tasks[t].forwarded = 0
                   /\ tasks[t].msg = NoMsg)
    /\ [](collations_generated_total = Cardinality(Built))

\* One task ended on None while its sibling's message was forwarded.
C7_Witness ==
    /\ Len(tasks) = 2
    /\ tasks[1].pc = "done" /\ tasks[1].collation = <<>>
    /\ tasks[2].forwarded = 1
    /\ loop = "select"

\* The values of a message are those of its own relay parent.
OwnInputs(m) ==
    LET d == m.receipt.descriptor
        persisted == PersistedAt(d.relay_parent, d.para_id)
    IN /\ d.persisted_validation_data_hash = Hash(persisted)
       /\ d.erasure_root =
             erasure_root(NValidatorsAt(d.relay_parent), persisted, m.pov)
       /\ d.pov_hash = Hash(m.pov)

\* Tasks t and u, in this spawn order, are of different relay parents.
TwoSpawned(t, u) ==
    IF t < u /\ u <= Len(tasks)
    THEN tasks[t].relay_parent # tasks[u].relay_parent
    ELSE FALSE

\* The messages of tasks t and u are both among the forwarded ones, each
\* with its own task's relay parent.
BothForwarded(t, u) ==
    IF t < u /\ u <= Len(tasks)
    THEN \E i \in DOMAIN outbound : \E j \in DOMAIN outbound :
            /\ i # j
            /\ outbound[i] = tasks[t].msg
            /\ outbound[j] = tasks[u].msg
            /\ outbound[i].receipt.descriptor.relay_parent =
                  tasks[t].relay_parent
            /\ outbound[j].receipt.descriptor.relay_parent =
                  tasks[u].relay_parent
    ELSE FALSE

\* C8: in the runs where all requests succeed, when tasks have been spawned
\* for two different relay parents both their messages are eventually
\* forwarded, and every message forwarded carries the relay parent, the
\* validation-data hash and the erasure root (from the validator count) of
\* the relay parent its own task was spawned for.
C8_TwoRelayParents ==
    /\ [](\A i \in DOMAIN outbound : OwnInputs(outbound[i]))
    /\ [](\A t \in Built : OwnInputs(tasks[t].msg))
    /\ \A t \in 1..MaxTasks : \A u \in 1..MaxTasks :
          TwoSpawned(t, u) ~> BothForwarded(t, u)

\* The task of h1 was spawned before the task of h2, and the message of h2
\* was forwarded before the message of h1.
C8_Witness ==
    /\ Len(tasks) = 2
    /\ tasks[1].relay_parent = "h1" /\ tasks[2].relay_parent = "h2"
    /\ Len(outbound) = 2
    /\ outbound[1].receipt.descriptor.relay_parent = "h2"
    /\ outbound[2].receipt.descriptor.relay_parent = "h1"

\* C9: a Conclude is taken whenever the loop selects, whatever the tasks
\* are doing, and the loop has then exited; after the exit every task that
\* has not ended can take a step, every task ends, and nothing more is
\* forwarded (the message of a task caught in its send is lost, and the
\* loop and the handler are not touched by it).
C9_ConcludeDoesNotWait ==
    /\ [](loop = "select" => ENABLED RecvConclude)
    /\ [](loop = "exited"
            => \A t \in TaskIds :
                  tasks[t].pc # "done" => ENABLED TaskStep(t))
    /\ [][loop = "exited"
            => /\ outbound' = outbound
               /\ UNCHANGED loop_vars
               /\ UNCHANGED handler_vars]_vars
    /\ (loop = "exited") ~> (\A t \in TaskIds : tasks[t].pc = "done")

\* The loop exited on Conclude while one task was in its send and another
\* had its message ready; both have ended, neither message was forwarded.
C9_Witness ==
    /\ loop = "exited"
    /\ "error receiving message" \notin logged
    /\ \E t \in TaskIds :
          /\ tasks[t].pc = "done"
          /\ tasks[t].sends = 1
          /\ tasks[t].forwarded = 0
    /\ \E t \in TaskIds :
          /\ tasks[t].pc = "done"
          /\ tasks[t].msg # NoMsg
          /\ tasks[t].sends = 0

\* C10: the handler never ends the loop: a step of the handler leaves the
\* loop handling or selecting, and the step in which it fails (it returns
\* before the list of relay parents is exhausted) puts the loop back to
\* its select with the configuration, the tasks and the channel as they
\* were.
C10_HandlerFailureKeepsLoop ==
    /\ [][loop = "handling" => loop' \in {"handling", "select"}]_vars
    /\ [][(loop = "handling" /\ hpc' = "idle"
              /\ ~(hpc = "rp" /\ activated = <<>>))
             => /\ loop' = "select"
                /\ config' = config
                /\ "failed to handle new activations" \in logged'
                /\ UNCHANGED task_vars
                /\ outbound' = outbound]_vars
    /\ []((loop = "select" /\ config # None)
             => ENABLED (\E b \in Batches : RecvActiveLeaves(b)))

\* After a handler failure a later activation is under way, its validation
\* data request out.
C10_Witness ==
    /\ "failed to handle new activations" \in logged
    /\ loop = "handling"
    /\ hpc = "await_vd"

\* C11 as stated: a failed request costs only the relay parent in hand; the
\* relay parents listed after it stay to be handled.  A step of the handler
\* keeps the list of relay parents still to handle or drops its head, never
\* more.
C11_LaterRelayParentsHandled ==
    [][loop = "handling"
          => \/ activated' = activated
             \/ activated' = Tail(activated)]_vars

\* C12: the step that reads an error from the control source ends the loop:
\* once the error is logged the loop has exited, and from then on the loop
\* takes no signal (configuration, log and handler stay as they are, the
\* handler idle with no request out) and forwards nothing.
C12_ReceiveErrorStopsLoop ==
    /\ []("error receiving message" \in logged => loop = "exited")
    /\ [](loop = "exited" => hpc = "idle" /\ Outstanding = {} /\ chan = <<>>)
    /\ [][loop = "exited"
            => /\ UNCHANGED loop_vars
               /\ UNCHANGED handler_vars
               /\ outbound' = outbound
               /\ Len(tasks') = Len(tasks)]_vars
    /\ [](loop = "exited"
            => /\ ~ENABLED ForwardCompletion
               /\ ~ENABLED (\E c \in Configs : RecvInitialize(c))
               /\ ~ENABLED (\E b \in Batches : RecvActiveLeaves(b)))

\* The loop ended on a receive error while a task's message waited in the
\* channel: that task has ended and its message was never forwarded.
C12_Witness ==
    /\ loop = "exited"
    /\ "error receiving message" \in logged
    /\ config # None
    /\ \E t \in TaskIds :
          /\ tasks[t].pc = "done"
          /\ tasks[t].sends = 1
          /\ tasks[t].forwarded = 0

\* C13: while no configuration is stored the handler never runs: no request
\* is out, no task exists, nothing is forwarded, and an ActiveLeaves taken
\* then changes nothing at all; the Initialize that stores the first
\* configuration starts no work either (the handler, the tasks and the
\* outbound messages stay as they were, the loop goes back to its select).
C13_UnconfiguredActivationIgnored ==
    /\ [](config = None
            => /\ loop # "handling"
               /\ hpc = "idle" /\ activated = <<>> /\ Outstanding = {}
               /\ tasks = <<>> /\ chan = <<>> /\ outbound = <<>>)
    /\ [][(config = None /\ \E b \in Batches : RecvActiveLeaves(b))
             => UNCHANGED vars]_vars
    /\ [][(config = None /\ config' # None)
             => /\ loop' = "select"
                /\ hpc' = "idle" /\ activated' = <<>>
                /\ tasks' = <<>> /\ outbound' = <<>>]_vars

\* The first configuration has just been stored, after a time without one
\* in which any ActiveLeaves was taken and dropped: the loop is at its
\* select, the handler has never run, no task exists.
C13_Witness ==
    /\ config = 2
    /\ loop = "select"
    /\ hpc = "idle" /\ activated = <<>>
    /\ tasks = <<>> /\ outbound = <<>>
    /\ logged = {}
    /\ ENABLED (\E b \in Batches : b # <<>> /\ RecvActiveLeaves(b))

\* Task t ended where its erasure root failed: it has a collation and no
\* message.
ErasureFailed(t) ==
    /\ tasks[t].pc = "done"
    /\ tasks[t].collation # <<>>
    /\ tasks[t].msg = NoMsg

\* C14: the step in which a task's erasure root fails ends that task and
\* changes nothing else: the channel, the counter, the loop, the handler,
\* the outbound messages and every other task stay as they were; a task
\* ended so has sent nothing, and the counter counts only the tasks that
\* assembled a message.
C14_ErasureFailureIsolated ==
    /\ [][\A t \in TaskIds :
             (tasks[t].pc = "build" /\ tasks'[t].pc = "done")
                => /\ tasks' = [tasks EXCEPT ![t].pc = "done"]
                   /\ UNCHANGED <<chan, collations_generated_total>>
                   /\ UNCHANGED <<loop_vars, handler_vars, outbound>>]_vars
    /\ [](\A t \in TaskIds :
             ErasureFailed(t) => tasks[t].sends = 0 /\ tasks[t].forwarded = 0)
    /\ [](collations_generated_total
             = Cardinality(TaskIds)
               - Cardinality({t \in TaskIds : tasks[t].msg = NoMsg}))

\* The first task's erasure root failed; the second task, spawned for the
\* same relay parent, built its receipt, sent it and had it forwarded.
C14_Witness ==
    /\ Len(tasks) = 2
    /\ ErasureFailed(1)
    /\ tasks[2].relay_parent = tasks[1].relay_parent
    /\ tasks[2].pc = "done" /\ tasks[2].forwarded = 1
    /\ collations_generated_total = 1
    /\ Len(outbound) = 1

\* C15: a task whose send fails (the receiver is gone) ends in that step
\* and nothing else changes: no log of the loop, no other task, no channel
\* entry; a task that has ended never moves again, a collation once
\* produced is never produced again, and the counter never counts a task
\* twice.
C15_SendFailureEndsTask ==
    /\ [][\A t \in TaskIds :
             (tasks[t].pc = "send" /\ loop = "exited"
                 /\ tasks'[t] # tasks[t])
                => /\ tasks' = [tasks EXCEPT ![t].pc = "done"]
                   /\ UNCHANGED <<chan, collations_generated_total>>
                   /\ UNCHANGED <<loop_vars, handler_vars, outbound>>]_vars
    /\ [][\A t \in TaskIds :
             tasks[t].pc = "done" => tasks'[t] = tasks[t]]_vars
    /\ [][\A t \in TaskIds :
             tasks[t].collation # <<>>
                => /\ tasks'[t].collation = tasks[t].collation
                   /\ tasks'[t].pc # "collate"]_vars
    /\ [](collations_generated_total <= Len(tasks))

\* The only task built its message after the loop had exited: its send
\* failed and it has ended, counted once, nothing sent.
C15_Witness ==
    /\ loop = "exited"
    /\ Len(tasks) = 1
    /\ tasks[1].pc = "done"
    /\ tasks[1].msg # NoMsg
    /\ tasks[1].sends = 0
    /\ collations_generated_total = 1
    /\ outbound = <<>>

\* C16: the commitments hash of every receipt a task assembled is the hash
\* of the six fields (upward messages, horizontal messages, new validation
\* code, head data, processed downward messages, HRMP watermark) of that
\* task's own collation, the PoV sent with the receipt is that collation's
\* PoV, and the descriptor's PoV hash is the hash of the PoV sent; the same
\* holds of every message forwarded.
C16_CommitmentsAndPoV ==
    /\ \A t \in Built :
          LET c == tasks[t].collation
              m == tasks[t].msg
          IN /\ c = CollationOf(tasks[t].task_config, tasks[t].relay_parent)
             /\ m.receipt.commitments_hash =
                   Hash([upward_messages |-> <<"upward_messages", c>>,
                         horizontal_messages |-> <<"horizontal_messages", c>>,
                         new_validation_code |-> <<"new_validation_code", c>>,
                         head_data |-> <<"head_data", c>>,
                         processed_downward_messages |->
                             <<"processed_downward_messages", c>>,
                         hrmp_watermark |-> <<"hrmp_watermark", c>>])
             /\ m.pov = <<"pov", c>>
             /\ m.receipt.descriptor.pov_hash = Hash(m.pov)
    /\ \A i \in DOMAIN outbound :
          /\ outbound[i].receipt.descriptor.pov_hash = Hash(outbound[i].pov)
          /\ \E t \in Built : outbound[i] = tasks[t].msg

\* Receipts of two different collations were assembled and one of them
\* forwarded.
C16_Witness ==
    /\ Len(tasks) = 2
    /\ Built = {1, 2}
    /\ tasks[1].collation # tasks[2].collation
    /\ tasks[1].msg.receipt.commitments_hash
          # tasks[2].msg.receipt.commitments_hash
    /\ Len(outbound) >= 1

\* The tasks whose message waits in the channel.
Waiting == {chan[i] : i \in DOMAIN chan}

\* C17: every message passed outward is the message of a task that sent it
\* on the channel; a step that passes a message outward takes the head of
\* the channel and appends exactly that task's message; no task's message
\* is passed outward twice, and while the loop runs every message sent is
\* either still waiting in the channel or has been passed outward.
C17_ForwardedUnchangedOnce ==
    /\ [](\A i \in DOMAIN outbound :
             \E t \in TaskIds :
                tasks[t].sends = 1 /\ tasks[t].msg = outbound[i])
    /\ [](/\ Cardinality(Waiting) = Len(chan)
          /\ \A t \in TaskIds : tasks[t].forwarded <= tasks[t].sends
          /\ Len(outbound)
                = Cardinality({t \in TaskIds : tasks[t].forwarded = 1}))
    /\ [](loop # "exited"
            => \A t \in TaskIds :
                  tasks[t].sends = 1
                     => (tasks[t].forwarded = 1) # (t \in Waiting))
    /\ [][chan' # chan /\ loop' # "exited" /\ Len(chan') < Len(chan)
            => /\ chan' = Tail(chan)
               /\ outbound' = Append(outbound, tasks[Head(chan)].msg)]_vars
    /\ [][outbound' # outbound
            => /\ loop = "select" /\ chan # <<>>
               /\ outbound' = Append(outbound, tasks[Head(chan)].msg)
               /\ chan' = Tail(chan)
               /\ tasks'[Head(chan)].msg = tasks[Head(chan)].msg]_vars

\* Two tasks sent different messages; both were taken and passed outward,
\* one each, and the channel is empty.
C17_Witness ==
    /\ loop = "select"
    /\ Len(tasks) = 2
    /\ tasks[1].msg # tasks[2].msg
    /\ tasks[1].forwarded = 1 /\ tasks[2].forwarded = 1
    /\ chan = <<>>
    /\ Len(outbound) = 2
    /\ {outbound[1], outbound[2]} = {tasks[1].msg, tasks[2].msg}

\* C18: a task whose message waits in the channel is still inside its
\* send; the step that completes a send finds the message gone from the
\* channel; and while the loop runs, a task that has completed its send
\* has had its message taken and passed on by the loop.
C18_SendWaitsForTheLoop ==
    /\ [](\A t \in Waiting : tasks[t].pc = "flush" /\ tasks[t].sends = 1)
    /\ [](loop # "exited"
            => \A t \in TaskIds :
                  (tasks[t].pc = "done" /\ tasks[t].sends = 1)
                     => tasks[t].forwarded = 1)
    /\ [][\A t \in TaskIds :
             (tasks[t].pc = "flush" /\ tasks'[t].pc = "done")
                => /\ t \notin Waiting
                   /\ tasks[t].forwarded = 1 \/ loop = "exited"]_vars

\* The first task's message was taken and its send has completed; the
\* second task is held in its send, its message waiting in the channel
\* while the loop is busy in the handler.
C18_Witness ==
    /\ Len(tasks) = 2
    /\ tasks[1].pc = "done" /\ tasks[1].forwarded = 1
    /\ tasks[2].pc = "flush" /\ 2 \in Waiting
    /\ loop = "handling"
    /\ ~ENABLED TaskFlush(2)

U128Max == 3
\* The longest `assets` argument.
MaxAssets == 2

Concrete(id) == <<"Concrete", id>>
Abstract(id) == <<"Abstract", id>>
AssetIds == {Concrete(1), Abstract(1)}
AssetInstances == {1}
Amounts == 1..U128Max

MultiAsset(tag, id, amount, instance) ==
    [tag |-> tag, id |-> id, amount |-> amount, instance |-> instance]
Wildcards ==
    {MultiAsset(tag, 0, 0, 0) :
        tag \in {"None", "All", "AllFungible", "AllNonFungible"}}
    \cup {MultiAsset(tag, 1, 0, 0) :
        tag \in {"AllAbstractFungible", "AllAbstractNonFungible",
                 "AllConcreteFungible", "AllConcreteNonFungible"}}
SpecificFungibles ==
    {MultiAsset(tag, 1, amount, 0) :
        tag \in {"AbstractFungible", "ConcreteFungible"}, amount \in Amounts}
SpecificNonFungibles ==
    {MultiAsset(tag, 1, 0, instance) :
        tag \in {"AbstractNonFungible", "ConcreteNonFungible"},
        instance \in AssetInstances}
MultiAssets == Wildcards \cup SpecificFungibles \cup SpecificNonFungibles
AssetLists == UNION {[1..n -> MultiAssets] : n \in 0..MaxAssets}

\* Every value of Assets over the ids and instances above.
AllAssets ==
    {[fungible |-> f, non_fungible |-> nf] :
        f \in UNION {[D -> Amounts] : D \in SUBSET AssetIds},
        nf \in SUBSET (AssetIds \X AssetInstances)}

\* The AssetId a variant names: AssetId::Concrete(id) or AssetId::Abstract(id).
AssetIdOf(asset) ==
    IF asset.tag \in {"AllConcreteFungible", "AllConcreteNonFungible",
                      "ConcreteFungible", "ConcreteNonFungible"}
    THEN Concrete(asset.id)
    ELSE Abstract(asset.id)

\* BTreeMap::insert and BTreeMap::remove
MapInsert(map, key, value) ==
    [k \in DOMAIN map \cup {key} |-> IF k = key THEN value ELSE map[k]]
MapRemove(map, key) == [k \in DOMAIN map \ {key} |-> map[k]]

\* u128::wrapping_add
wrapping_add(a, b) == (a + b) % (U128Max + 1)

\* u128::saturating_add
saturating_add(a, b) == IF a + b > U128Max THEN U128Max ELSE a + b

\* self.fungible.entry(id).and_modify(|e| *e = e.saturating_add(amount))
\*     .or_insert(amount)
saturating_subsume_fungible(self, id, amount) ==
    [self EXCEPT !.fungible =
        IF id \in DOMAIN @
        THEN MapInsert(@, id, saturating_add(@[id], amount))
        ELSE MapInsert(@, id, amount)]

\* self.non_fungible.insert((class, instance))
saturating_subsume_non_fungible(self, class, instance) ==
    [self EXCEPT !.non_fungible = @ \cup {<<class, instance>>}]

\* match asset { ConcreteFungible { id, amount } =>
\* self.saturating_subsume_fungible(AssetId::Concrete(id), amount), ...,
\* _ => () }: wildcards are swallowed.
saturating_subsume(self, asset) ==
    CASE asset.tag \in {"ConcreteFungible", "AbstractFungible"} ->
            saturating_subsume_fungible(self, AssetIdOf(asset), asset.amount)
      [] asset.tag \in {"ConcreteNonFungible", "AbstractNonFungible"} ->
            saturating_subsume_non_fungible(self, AssetIdOf(asset),
                                            asset.instance)
      [] OTHER -> self

\* for_each over a map of fungibles, subsuming each entry into result.
SubsumeFungibles(result, map) ==
    [result EXCEPT !.fungible =
        [k \in DOMAIN @ \cup DOMAIN map |->
            IF k \in DOMAIN @ /\ k \in DOMAIN map
            THEN saturating_add(@[k], map[k])
            ELSE IF k \in DOMAIN map THEN map[k] ELSE @[k]]]

\* One turn of the loop of saturating_take for a variant other than All:
\* self and result after it.
TakeOne(self, result, asset) ==
    LET id == AssetIdOf(asset)
    IN  CASE asset.tag = "None" -> [self |-> self, result |-> result]
          [] asset.tag = "AllFungible" ->
                [self |-> [self EXCEPT !.fungible = [k \in {} |-> 0]],
                 result |-> SubsumeFungibles(result, self.fungible)]
          [] asset.tag = "AllNonFungible" ->
                [self |-> [self EXCEPT !.non_fungible = {}],
                 result |-> [result EXCEPT !.non_fungible =
                                @ \cup self.non_fungible]]
          [] asset.tag \in {"AllAbstractFungible", "AllConcreteFungible"} ->
                IF id \in DOMAIN self.fungible
                THEN [self |-> [self EXCEPT !.fungible = MapRemove(@, id)],
                      result |-> saturating_subsume_fungible(
                                     result, id, self.fungible[id])]
                ELSE [self |-> self, result |-> result]
          [] asset.tag \in {"AllAbstractNonFungible",
                            "AllConcreteNonFungible"} ->
                LET matching == {e \in self.non_fungible : e[1] = id}
                IN  [self |-> [self EXCEPT !.non_fungible = @ \ matching],
                     result |-> [result EXCEPT !.non_fungible =
                                    @ \cup matching]]
          [] asset.tag \in {"AbstractFungible", "ConcreteFungible"} ->
                IF id \in DOMAIN self.fungible
                THEN LET e == self.fungible[id]
                     IN  IF e > asset.amount
                         THEN [self |-> [self EXCEPT !.fungible =
                                   MapInsert(@, id, e - asset.amount)],
                               result |-> saturating_subsume_fungible(
                                   result, id, asset.amount)]
                         ELSE [self |-> [self EXCEPT !.fungible =
                                   MapRemove(@, id)],
                               result |-> saturating_subsume_fungible(
                                   result, id, e)]
                ELSE [self |-> self, result |-> result]
          [] asset.tag \in {"AbstractNonFungible", "ConcreteNonFungible"} ->
                IF <<id, asset.instance>> \in self.non_fungible
                THEN [self |-> [self EXCEPT !.non_fungible =
                                   @ \ {<<id, asset.instance>>}],
                      result |-> saturating_subsume_non_fungible(
                                     result, id, asset.instance)]
                ELSE [self |-> self, result |-> result]

\* self.swapped(with): self becomes `with`, the old self is returned.
swapped(self, with) == [self |-> with, result |-> self]

\* The loop of saturating_take over the rest of the list: self as it is left
\* and the Assets returned.
RECURSIVE TakeLoop(_, _, _)
TakeLoop(self, result, assets) ==
    IF assets = <<>>
    THEN [self |-> self, result |-> result]
    ELSE IF Head(assets).tag = "All"
         THEN swapped(self, AssetsDefault)
         ELSE LET after == TakeOne(self, result, Head(assets))
              IN  TakeLoop(after.self, after.result, Tail(assets))

saturating_take(self, assets) == TakeLoop(self, AssetsDefault, assets)

\* A min that grants whatever amount is asked for.
LeastIsTheAmountAsked(amount, v) == amount

\* amount.min(*v)
Least(amount, v) == IF amount < v THEN amount ELSE v

\* One turn of the loop of min for a variant other than All.
MinOne(self, result, asset) ==
    LET id == AssetIdOf(asset)
    IN  CASE asset.tag = "None" -> result
          [] asset.tag = "AllFungible" ->
                [fungible |-> self.fungible,
                 non_fungible |-> result.non_fungible]
          [] asset.tag = "AllNonFungible" ->
                [fungible |-> result.fungible,
                 non_fungible |-> self.non_fungible]
          [] asset.tag \in {"AllAbstractFungible", "AllConcreteFungible"} ->
                IF id \in DOMAIN self.fungible
                THEN saturating_subsume_fungible(result, id, self.fungible[id])
                ELSE result
          [] asset.tag \in {"AllAbstractNonFungible",
                            "AllConcreteNonFungible"} ->
                [result EXCEPT !.non_fungible =
                    @ \cup {e \in self.non_fungible : e[1] = id}]
          [] asset.tag \in {"AbstractFungible", "ConcreteFungible"} ->
                IF id \in DOMAIN self.fungible
                THEN saturating_subsume_fungible(result, id,
                         Least(asset.amount, self.fungible[id]))
                ELSE result
          [] asset.tag \in {"AbstractNonFungible", "ConcreteNonFungible"} ->
                IF <<id, asset.instance>> \in self.non_fungible
                THEN [result EXCEPT !.non_fungible =
                         @ \cup {<<id, asset.instance>>}]
                ELSE result

RECURSIVE MinLoop(_, _, _)
MinLoop(self, result, assets) ==
    IF assets = <<>>
    THEN result
    ELSE IF Head(assets).tag = "All"
         THEN self
         ELSE MinLoop(self, MinOne(self, result, Head(assets)), Tail(assets))

\* self.min(assets): the Assets returned; self is borrowed, not changed.
min(self, assets) == MinLoop(self, AssetsDefault, assets)

\* A caller holds any Assets and makes one call with any list.
AssetsInit ==
    /\ BesideAssetsIdle
    /\ assets_self \in AllAssets
    /\ assets_arg \in AssetLists
    /\ assets_before = assets_self
    /\ assets_result = AssetsDefault
    /\ assets_call = "none"

\* let taken = assets_self.saturating_take(assets_arg)
CallSaturatingTake ==
    /\ assets_call = "none"
    /\ assets_call' = "saturating_take"
    /\ assets_self' = saturating_take(assets_self, assets_arg).self
    /\ assets_result' = saturating_take(assets_self, assets_arg).result
    /\ UNCHANGED <<assets_arg, assets_before, beside_assets_vars>>

\* let least = assets_self.min(assets_arg.iter())
CallMin ==
    /\ assets_call = "none"
    /\ assets_call' = "min"
    /\ assets_result' = min(assets_self, assets_arg)
    /\ UNCHANGED <<assets_self, assets_arg, assets_before, beside_assets_vars>>

\* assets_self.saturating_subsume(asset), with the first asset of assets_arg
CallSaturatingSubsume ==
    /\ assets_call = "none"
    /\ assets_arg # <<>>
    /\ assets_call' = "saturating_subsume"
    /\ assets_self' = saturating_subsume(assets_self, Head(assets_arg))
    /\ UNCHANGED <<assets_arg, assets_before, assets_result,
                   beside_assets_vars>>

AssetsNext == CallSaturatingTake \/ CallMin \/ CallSaturatingSubsume

AssetsSpec == AssetsInit /\ [][AssetsNext]_vars

(***************************************************************************)
(* Claims about Assets.                                                    *)
(***************************************************************************)
\* The amount of a fungible id an Assets holds, 0 if it holds none.
AmountOf(a, id) == IF id \in DOMAIN a.fungible THEN a.fungible[id] ELSE 0

\* C21: saturating_take returns exactly what it removed from self: for every
\* list of requests and every fungible id, the amount returned plus the
\* amount left in self is the amount self held before the call, and every
\* non-fungible self held is afterwards in exactly one of self and the
\* returned Assets.
C21_TakeReturnsWhatItRemoved ==
    assets_call = "saturating_take" =>
        /\ \A id \in AssetIds :
              AmountOf(assets_result, id) + AmountOf(assets_self, id)
                  = AmountOf(assets_before, id)
        /\ \A item \in assets_before.non_fungible :
              (item \in assets_self.non_fungible)
                  # (item \in assets_result.non_fungible)

\* A list element matches a fungible id, or a non-fungible item, if it names
\* it or is a wildcard that covers it.
MatchesFungible(asset, id) ==
    \/ asset.tag \in {"All", "AllFungible"}
    \/ /\ asset.tag \in {"AllAbstractFungible", "AllConcreteFungible",
                         "AbstractFungible", "ConcreteFungible"}
       /\ AssetIdOf(asset) = id
MatchesNonFungible(asset, item) ==
    \/ asset.tag \in {"All", "AllNonFungible"}
    \/ /\ asset.tag \in {"AllAbstractNonFungible", "AllConcreteNonFungible"}
       /\ AssetIdOf(asset) = item[1]
    \/ /\ asset.tag \in {"AbstractNonFungible", "ConcreteNonFungible"}
       /\ AssetIdOf(asset) = item[1]
       /\ asset.instance = item[2]

\* No asset that self holds is matched by more than one element of the list.
NoDoubleMatch(self, assets) ==
    /\ \A id \in DOMAIN self.fungible :
          Cardinality({i \in DOMAIN assets :
                          MatchesFungible(assets[i], id)}) <= 1
    /\ \A item \in self.non_fungible :
          Cardinality({i \in DOMAIN assets :
                          MatchesNonFungible(assets[i], item)}) <= 1

\* C22: for a list whose elements never match the same asset more than
\* once, self.min(assets) is asset-wise no greater than self (it holds no
\* fungible id and no non-fungible that self does not hold, and of no
\* fungible more than self holds), for each specific fungible entry
\* (id, amount) whose id self holds it holds exactly the smaller of amount
\* and self's amount, and self is as it was before the call.
C22_MinIsNoGreaterThanSelf ==
    (assets_call = "min" /\ NoDoubleMatch(assets_before, assets_arg)) =>
        /\ assets_self = assets_before
        /\ DOMAIN assets_result.fungible \subseteq DOMAIN assets_self.fungible
        /\ \A id \in DOMAIN assets_result.fungible :
              assets_result.fungible[id] <= assets_self.fungible[id]
        /\ assets_result.non_fungible \subseteq assets_self.non_fungible
        /\ \A i \in DOMAIN assets_arg :
              (/\ assets_arg[i].tag \in {"AbstractFungible", "ConcreteFungible"}
               /\ AssetIdOf(assets_arg[i]) \in DOMAIN assets_self.fungible)
              => /\ AssetIdOf(assets_arg[i]) \in DOMAIN assets_result.fungible
                 /\ assets_result.fungible[AssetIdOf(assets_arg[i])]
                       = IF assets_arg[i].amount
                              < assets_self.fungible[AssetIdOf(assets_arg[i])]
                         THEN assets_arg[i].amount
                         ELSE assets_self.fungible[AssetIdOf(assets_arg[i])]

\* min was called with a specific fungible entry asking for more than self
\* holds of it and a second entry matching another asset self holds.
C22_Witness ==
    /\ assets_call = "min"
    /\ NoDoubleMatch(assets_before, assets_arg)
    /\ Len(assets_arg) = 2
    /\ assets_arg[1].tag = "ConcreteFungible"
    /\ assets_arg[2].tag = "AllNonFungible"
    /\ Concrete(1) \in DOMAIN assets_self.fungible
    /\ assets_self.fungible[Concrete(1)] < assets_arg[1].amount
    /\ assets_self.non_fungible # {}
    /\ assets_result.fungible[Concrete(1)] = assets_self.fungible[Concrete(1)]
    /\ assets_result.non_fungible = assets_self.non_fungible

(***************************************************************************)
(* service: the GRANDPA voting rule PauseAfterBlockFor(N, M).              *)
(* The headers are those of one chain, so a header is its number and its   *)
(* parent is the header one below; BlockHash(n) is the hash of header n.   *)
(***************************************************************************)
\* The highest block number, and the highest N and M of a rule.
MaxBlock == 4
MaxPause == 2

BlockHash(number) == <<"hash", number>>

\* A walk that answers with the header it started from.
find_target_where_it_started(target_number, current_header, backend) ==
    IF current_header < target_number
    THEN <<"unreachable">>
    ELSE <<BlockHash(current_header), target_number>>

\* The closure find_target: walk backwards from current_header to the header
\* numbered target_number; a failed backend.header() makes `.ok()?` return
\* None.
RECURSIVE find_target(_, _, _)
find_target(target_number, current_header, backend) ==
    IF current_header < target_number
    THEN <<"unreachable">>
    ELSE IF current_header = target_number
         THEN <<BlockHash(current_header), target_number>>
         ELSE IF backend = "err"
              THEN NoVote
              ELSE find_target(target_number, current_header - 1, backend)

\* *best_target.number() > self.0 + self.1
PastThePause(best_number, rule) == best_number > rule[1] + rule[2]

restrict_vote(rule, backend, base, best_target, current_target) ==
    IF current_target > rule[1]
    THEN IF PastThePause(best_target, rule)
         THEN NoVote
         ELSE IF base >= rule[1]
              THEN <<BlockHash(base), base>>
              ELSE find_target(rule[1], current_target, backend)
    ELSE NoVote

\* Any rule, and any headers of the chain with base (the last finalized
\* block) no higher than current_target and that no higher than best_target.
VoteInit ==
    /\ BesideVoteIdle
    /\ vote_args \in
          {[rule |-> <<n, m>>, base |-> b, best_target |-> best,
            current_target |-> cur, backend |-> be] :
              n \in 0..MaxPause, m \in 0..MaxPause,
              b \in 0..MaxBlock, best \in 0..MaxBlock, cur \in 0..MaxBlock,
              be \in {"ok", "err"}}
    /\ vote_args.base <= vote_args.current_target
    /\ vote_args.current_target <= vote_args.best_target
    /\ vote_result = NoVote
    /\ vote_call = "none"

CallRestrictVote ==
    /\ vote_call = "none"
    /\ vote_call' = "restrict_vote"
    /\ vote_result' = restrict_vote(vote_args.rule, vote_args.backend,
                          vote_args.base, vote_args.best_target,
                          vote_args.current_target)
    /\ UNCHANGED <<vote_args, beside_vote_vars>>

VoteNext == CallRestrictVote

VoteSpec == VoteInit /\ [][VoteNext]_vars

\* C23: under PauseAfterBlockFor(N, M), for a current target above N:
\* while the best block's number has not reached N + M, restrict_vote
\* returns a restricted vote and never None (checked here only where the
\* backend answers), and once the best block's number has reached N + M it
\* returns None.
C23_PauseEndsWhenBestReachesNPlusM ==
    (/\ vote_call = "restrict_vote"
     /\ vote_args.current_target > vote_args.rule[1]
     /\ vote_args.backend = "ok")
    => IF vote_args.best_target < vote_args.rule[1] + vote_args.rule[2]
       THEN vote_result # NoVote
       ELSE vote_result = NoVote

(***************************************************************************)
(* subsystem-util: ConnectionRequests.                                     *)
(* requests is a StreamUnordered: insert hands out a token not in use,     *)
(* remove(token) drops the stream under it, and next() yields an item of   *)
(* any stream that has one or reports a stream that has finished.  A       *)
(* ConnectionRequest is a stream of the validators of its validator_map    *)
(* not yet resolved; here it is its number of order, the relay parent it   *)
(* was put under, and the validators it has still to resolve.              *)
(***************************************************************************)
\* How many ConnectionRequest values are made, and the most validators one
\* has to resolve.
MaxRequests == 3
MaxValidators == 2

Tokens == 1..MaxRequests

\* AuthorityDiscoveryId values, and the ValidatorId a validator_map holds
\* for one: the map is built from a list of validators by an index search,
\* so that two authority ids never stand for the same validator.
AuthorityIds == 1..MaxValidators
ValidatorOf(id) == <<"validator", id>>

\* A ConnectionRequest for the authority ids `validators`, put under
\* relay_parent.  `requested` and `yielded` are its history: the validators
\* of its validator_map when it was made and the items it has yielded.
ConnectionRequestForRelayParent(relay_parent, request, validators) ==
    [relay_parent |-> relay_parent, request |-> request,
     validator_map |-> [id \in validators |-> ValidatorOf(id)],
     requested |-> {ValidatorOf(id) : id \in validators},
     yielded |-> <<>>,
     finished |-> FALSE]

\* A remove that forgets the relay parent and leaves its stream in requests.
removeKeepsTheStream(self, relay_parent) ==
    IF relay_parent \in DOMAIN self.id_map
    THEN [self EXCEPT !.id_map = [h \in DOMAIN @ \ {relay_parent} |-> @[h]]]
    ELSE self

\* if let Some(token) = self.id_map.remove(relay_parent) {
\*     Pin::new(&mut self.requests).remove(token); }
remove(self, relay_parent) ==
    IF relay_parent \in DOMAIN self.id_map
    THEN [id_map |-> [h \in DOMAIN self.id_map \ {relay_parent} |->
                          self.id_map[h]],
          requests |-> [t \in DOMAIN self.requests
                                \ {self.id_map[relay_parent]} |->
                            self.requests[t]]]
    ELSE self

\* self.remove(&relay_parent); let token = self.requests.insert(..);
\* self.id_map.insert(relay_parent, token).  `token` is the one that insert
\* hands out: any token not in use once the old stream is removed.
put(self, relay_parent, request, token) ==
    LET removed == remove(self, relay_parent)
    IN  [id_map |-> [h \in DOMAIN removed.id_map \cup {relay_parent} |->
                        IF h = relay_parent THEN token
                        ELSE removed.id_map[h]],
         requests |-> [t \in DOMAIN removed.requests \cup {token} |->
                        IF t = token THEN request
                        ELSE removed.requests[t]]]

\* self.id_map.contains_key(relay_parent)
contains_request(self, relay_parent) == relay_parent \in DOMAIN self.id_map

DiscoveryInit ==
    /\ BesideDiscoveryIdle
    /\ DiscoveryIdle

\* requests.put(relay_parent, request) with a request just made
CallPut(relay_parent, validators, token) ==
    /\ issued < MaxRequests
    /\ token \notin DOMAIN remove(connection_requests, relay_parent).requests
    /\ issued' = issued + 1
    /\ connection_requests' =
          put(connection_requests, relay_parent,
              ConnectionRequestForRelayParent(relay_parent, issued + 1,
                                              validators),
              token)
    /\ called' = <<"put", relay_parent>>
    /\ UNCHANGED beside_discovery_vars

\* requests.remove(&relay_parent)
CallRemove(relay_parent) ==
    /\ connection_requests' = remove(connection_requests, relay_parent)
    /\ called' = <<"remove", relay_parent>>
    /\ UNCHANGED <<issued, beside_discovery_vars>>

\* self.validator_map.remove(&id)
MapWithout(validator_map, id) ==
    [i \in DOMAIN validator_map \ {id} |-> validator_map[i]]

\* A stream that yields a validator and keeps it in its validator_map.
CallNextItemKeepsTheValidator(token, id) ==
    /\ token \in DOMAIN connection_requests.requests
    /\ id \in DOMAIN connection_requests.requests[token].validator_map
    /\ Len(connection_requests.requests[token].yielded) < MaxValidators
    /\ LET r == connection_requests.requests[token]
       IN /\ connection_requests' =
                [connection_requests EXCEPT
                    !.requests[token].yielded =
                        Append(@, r.validator_map[id])]
          /\ called' = <<"next",
                         [relay_parent |-> r.relay_parent,
                          request |-> r.request,
                          validator_id |-> r.validator_map[id]]>>
    /\ UNCHANGED <<issued, beside_discovery_vars>>

\* requests.next().await, Some((StreamYield::Item(item), _)) => return item:
\* the connections channel of the stream under `token` delivers authority id
\* `id`, which is in its validator_map; the stream removes it and yields its
\* validator, and next returns it with the stream's relay parent.
CallNextItem(token, id) ==
    /\ token \in DOMAIN connection_requests.requests
    /\ id \in DOMAIN connection_requests.requests[token].validator_map
    /\ LET r == connection_requests.requests[token]
       IN /\ connection_requests' =
                [connection_requests EXCEPT
                    !.requests[token].validator_map = MapWithout(@, id),
                    !.requests[token].yielded =
                        Append(@, r.validator_map[id])]
          /\ called' = <<"next",
                         [relay_parent |-> r.relay_parent,
                          request |-> r.request,
                          validator_id |-> r.validator_map[id]]>>
    /\ UNCHANGED <<issued, beside_discovery_vars>>

\* The connections channel delivers an authority id that is not in the
\* validator_map (unknown, or yielded before): Poll::Pending, nothing is
\* yielded and next goes on waiting.
NextUnknown(token, id) ==
    /\ token \in DOMAIN connection_requests.requests
    /\ DOMAIN connection_requests.requests[token].validator_map # {}
    /\ id \notin DOMAIN connection_requests.requests[token].validator_map
    /\ UNCHANGED <<discovery_vars, beside_discovery_vars>>

\* Some((StreamYield::Finished(_), _)) => (): a stream whose validator_map
\* is empty ends; next() ignores it and goes on waiting.
NextFinished(token) ==
    /\ token \in DOMAIN connection_requests.requests
    /\ DOMAIN connection_requests.requests[token].validator_map = {}
    /\ ~connection_requests.requests[token].finished
    /\ connection_requests' =
          [connection_requests EXCEPT !.requests[token].finished = TRUE]
    /\ UNCHANGED <<issued, called, beside_discovery_vars>>

DiscoveryNext ==
    \/ \E h \in RelayParents, v \in SUBSET AuthorityIds, t \in Tokens :
          CallPut(h, v, t)
    \/ \E h \in RelayParents : CallRemove(h)
    \/ \E t \in Tokens, id \in AuthorityIds : CallNextItem(t, id)
    \/ \E t \in Tokens, id \in AuthorityIds : NextUnknown(t, id)
    \/ \E t \in Tokens : NextFinished(t)

DiscoverySpec == DiscoveryInit /\ [][DiscoveryNext]_vars

\* The requests held, and those held under one relay parent.
LiveRequests ==
    {connection_requests.requests[t].request :
        t \in DOMAIN connection_requests.requests}
LiveUnder(h) ==
    {t \in DOMAIN connection_requests.requests :
        connection_requests.requests[t].relay_parent = h}

\* C24: a ConnectionRequests holds at most one live request per relay
\* parent and the keys of id_map are exactly the relay parents of the
\* requests held, each mapped to the token of its request; a put leaves
\* the request just made as the one held under its relay parent (an older
\* one is revoked); after remove(rp), contains_request(rp) is false; and
\* next never returns a DiscoveredValidator of a request that is no longer
\* held, nor under another relay parent than the request's own.
C24_OneLiveRequestPerRelayParent ==
    /\ \A h \in RelayParents : Cardinality(LiveUnder(h)) <= 1
    /\ \A h \in RelayParents :
          contains_request(connection_requests, h) <=> LiveUnder(h) # {}
    /\ \A h \in DOMAIN connection_requests.id_map :
          LiveUnder(h) = {connection_requests.id_map[h]}
    /\ called[1] = "put" =>
          /\ contains_request(connection_requests, called[2])
          /\ connection_requests.requests[
                 connection_requests.id_map[called[2]]].request = issued
    /\ called[1] = "remove" =>
          ~contains_request(connection_requests, called[2])
    /\ called[1] = "next" =>
          /\ called[2].request \in LiveRequests
          /\ \E t \in LiveUnder(called[2].relay_parent) :
                connection_requests.requests[t].request = called[2].request

\* A put on a relay parent that held a request with validators still to
\* resolve: the older request is gone and the newer one has since yielded
\* a validator through next.
C24_Witness ==
    /\ issued = 2
    /\ called[1] = "next"
    /\ called[2].request = 2
    /\ called[2].relay_parent = "h1"
    /\ LiveRequests = {2}

(***************************************************************************)
(* bitfield-signing: BitfieldSigningJob::run for one relay parent, with    *)
(* construct_availability_bitfield and get_core_availability.              *)
(* job.pc is the await the job stands at:                                  *)
(*   "start"        run has been called                                    *)
(*   "validator"    Validator::new(..).await                               *)
(*   "delay"        Delay::new_at(wait_until).await                        *)
(*   "cores"        the availability-cores request is being sent           *)
(*   "await_cores"  its answer is awaited                                  *)
(*   "join"         try_join_all over the cores' futures                   *)
(*   "sign"         validator.sign(..).await                               *)
(*   "send"         DistributeBitfield is being sent                       *)
(*   "done"         run has returned job.returned                          *)
(* job.results[i] is the future of core i: its pc is "start",              *)
(* "await_candidate", "await_chunk" or "done", its result "pending",       *)
(* "Ok(true)", "Ok(false)" or "Err", and failed tells whether the runtime  *)
(* answered its CandidatePendingAvailability request with an error.        *)
(***************************************************************************)
\* const JOB_DELAY: Duration = Duration::from_millis(1500)
JOB_DELAY == 1500
\* The clock advances by ClockStep up to MaxClock; at most MaxCores cores.
ClockStep == 500
MaxClock == 3000
MaxCores == 2

CoreLists == UNION {[1..n -> CoreStates] : n \in 0..MaxCores}

\* A job that does not wait.
WaitUntilNow(now) == now

\* let wait_until = Instant::now() + JOB_DELAY
WaitUntil(now) == now + JOB_DELAY

JobMessage(kind, bitfield) ==
    [kind |-> kind, relay_parent |-> job.relay_parent, at |-> clock,
     bitfield |-> bitfield]

\* run returns r.
JobReturns(r) == [job EXCEPT !.pc = "done", !.returned = r]

\* A run for which every failure of construct_availability_bitfield is an
\* error of the job.
ConstructFailedIsAnError(err) ==
    [job EXCEPT !.pc = "done", !.constructed = err, !.returned = "Err"]

\* The match of run on what construct_availability_bitfield returned:
\* Err(Error::Runtime(_)) => return Ok(()), Err(err) => return Err(err).
ConstructFailed(err) ==
    [job EXCEPT !.pc = "done", !.constructed = err,
                !.returned = IF err = "Err(Runtime)" THEN "Ok" ELSE "Err"]

JobInit ==
    /\ BesideJobIdle
    /\ job \in {[relay_parent |-> h, pc |-> "start", started |-> 0,
                 wait_until |-> 0, availability_cores |-> <<>>,
                 results |-> <<>>, constructed |-> "none", bitfield |-> <<>>,
                 bitfields_signed_total |-> 0, returned |-> "none"] :
                    h \in RelayParents}
    /\ clock = 0
    /\ job_sent = <<>>

\* Time passes.
Tick ==
    /\ clock < MaxClock
    /\ clock' = clock + ClockStep
    /\ UNCHANGED <<job, job_sent, beside_job_vars>>

\* let wait_until = Instant::now() + JOB_DELAY
JobStart ==
    /\ job.pc = "start"
    /\ job' = [job EXCEPT !.pc = "validator", !.started = clock,
                          !.wait_until = WaitUntil(clock)]
    /\ UNCHANGED <<clock, job_sent, beside_job_vars>>

\* match Validator::new(relay_parent, keystore.clone(), sender.clone()).await
ValidatorNew(outcome) ==
    /\ job.pc = "validator"
    /\ job' = CASE outcome = "Ok" -> [job EXCEPT !.pc = "delay"]
                [] outcome = "NotAValidator" -> JobReturns("Ok")
                [] outcome = "Err" -> JobReturns("Err")
    /\ UNCHANGED <<clock, job_sent, beside_job_vars>>

\* Delay::new_at(wait_until).await?
DelayElapsed(ok) ==
    /\ job.pc = "delay"
    /\ IF ok
       THEN /\ clock >= job.wait_until
            /\ job' = [job EXCEPT !.pc = "cores"]
       ELSE job' = JobReturns("Err")
    /\ UNCHANGED <<clock, job_sent, beside_job_vars>>

\* get_availability_cores: sender.send(AvailabilityCores(tx)).await?
SendCoresRequest(ok) ==
    /\ job.pc = "cores"
    /\ IF ok
       THEN /\ job' = [job EXCEPT !.pc = "await_cores"]
            /\ job_sent' = Append(job_sent,
                               JobMessage("AvailabilityCores", <<>>))
       ELSE /\ job' = ConstructFailed("Err(MpscSend)")
            /\ UNCHANGED job_sent
    /\ UNCHANGED <<clock, beside_job_vars>>

\* match rx.await { Ok(Ok(out)) => Ok(out), Ok(Err(runtime_err)) => Err(..),
\* Err(err) => Err(..) }, and the `?` of line 163.
CoresAnswer(answer, out) ==
    /\ job.pc = "await_cores"
    /\ job' = CASE answer = "Ok" ->
                     [job EXCEPT !.pc = "join",
                                 !.availability_cores = out,
                                 !.results = [i \in DOMAIN out |->
                                     [pc |-> "start", result |-> "pending",
                                      failed |-> FALSE,
                                      chunk |-> "unasked"]]]
                [] answer = "RuntimeErr" -> ConstructFailed("Err(Runtime)")
                [] answer = "Canceled" -> ConstructFailed("Err(Oneshot)")
    /\ UNCHANGED <<clock, job_sent, beside_job_vars>>

\* try_join_all polls the futures while none of them has failed.
Joining ==
    /\ job.pc = "join"
    /\ \A i \in DOMAIN job.results : job.results[i].result # "Err"

\* get_core_availability up to its first await: a core that is not occupied
\* is Ok(false); for an occupied one CandidatePendingAvailability is sent.
CoreStart(i, ok) ==
    /\ Joining
    /\ i \in DOMAIN job.results /\ job.results[i].pc = "start"
    /\ IF job.availability_cores[i].kind = "Occupied"
       THEN IF ok
            THEN /\ job' = [job EXCEPT !.results[i].pc = "await_candidate"]
                 /\ job_sent' = Append(job_sent,
                        JobMessage("CandidatePendingAvailability", <<>>))
            ELSE /\ job' = [job EXCEPT !.results[i].pc = "done",
                                       !.results[i].result = "Err"]
                 /\ UNCHANGED job_sent
       ELSE /\ job' = [job EXCEPT !.results[i].pc = "done",
                                  !.results[i].result = "Ok(false)"]
            /\ UNCHANGED job_sent
    /\ UNCHANGED <<clock, beside_job_vars>>

\* match rx.await? { Ok(Some(ccr)) => ccr, Ok(None) => return Ok(false),
\* Err(e) => { warn!; return Ok(false) } }, then QueryChunkAvailability is
\* sent.
CandidateAnswer(i, answer, ok) ==
    /\ Joining
    /\ i \in DOMAIN job.results /\ job.results[i].pc = "await_candidate"
    /\ CASE answer = "Some" /\ ok ->
                /\ job' = [job EXCEPT !.results[i].pc = "await_chunk"]
                /\ job_sent' = Append(job_sent,
                       JobMessage("QueryChunkAvailability", <<>>))
         [] answer = "Some" /\ ~ok ->
                /\ job' = [job EXCEPT !.results[i].pc = "done",
                                      !.results[i].result = "Err"]
                /\ UNCHANGED job_sent
         [] answer = "None" ->
                /\ job' = [job EXCEPT !.results[i].pc = "done",
                                      !.results[i].result = "Ok(false)"]
                /\ UNCHANGED job_sent
         [] answer = "RuntimeErr" ->
                /\ job' = [job EXCEPT !.results[i].pc = "done",
                                      !.results[i].result = "Ok(false)",
                                      !.results[i].failed = TRUE]
                /\ UNCHANGED job_sent
         [] answer = "Canceled" ->
                /\ job' = [job EXCEPT !.results[i].pc = "done",
                                      !.results[i].result = "Err"]
                /\ UNCHANGED job_sent
    /\ UNCHANGED <<clock, beside_job_vars>>

\* return rx.await.map_err(Into::into); `chunk` keeps what the availability
\* store answered.
ChunkAnswer(i, answer) ==
    /\ Joining
    /\ i \in DOMAIN job.results /\ job.results[i].pc = "await_chunk"
    /\ job' = [job EXCEPT !.results[i].pc = "done",
                          !.results[i].chunk = answer,
                          !.results[i].result =
                              CASE answer = "true" -> "Ok(true)"
                                [] answer = "false" -> "Ok(false)"
                                [] answer = "Canceled" -> "Err"]
    /\ UNCHANGED <<clock, job_sent, beside_job_vars>>

\* try_join_all(..).await?: the first Err ends the call.
JoinFailed ==
    /\ job.pc = "join"
    /\ \E i \in DOMAIN job.results : job.results[i].result = "Err"
    /\ job' = ConstructFailed("Err")
    /\ UNCHANGED <<clock, job_sent, beside_job_vars>>

\* Ok(AvailabilityBitfield(FromIterator::from_iter(results)))
JoinDone ==
    /\ job.pc = "join"
    /\ \A i \in DOMAIN job.results :
          job.results[i].result \in {"Ok(true)", "Ok(false)"}
    /\ job' = [job EXCEPT !.pc = "sign", !.constructed = "Ok",
                          !.bitfield = [i \in DOMAIN job.results |->
                              job.results[i].result = "Ok(true)"]]
    /\ UNCHANGED <<clock, job_sent, beside_job_vars>>

\* validator.sign(keystore.clone(), bitfield).await.map_err(..)?;
\* metrics.on_bitfield_signed()
SignBitfield(ok) ==
    /\ job.pc = "sign"
    /\ job' = IF ok
              THEN [job EXCEPT !.pc = "send",
                               !.bitfields_signed_total = @ + 1]
              ELSE JobReturns("Err")
    /\ UNCHANGED <<clock, job_sent, beside_job_vars>>

\* sender.send(DistributeBitfield(relay_parent, signed_bitfield)).await
SendBitfield(ok) ==
    /\ job.pc = "send"
    /\ IF ok
       THEN /\ job' = JobReturns("Ok")
            /\ job_sent' = Append(job_sent,
                               JobMessage("DistributeBitfield", job.bitfield))
       ELSE /\ job' = JobReturns("Err")
            /\ UNCHANGED job_sent
    /\ UNCHANGED <<clock, beside_job_vars>>

JobNext ==
    \/ Tick
    \/ JobStart
    \/ \E outcome \in {"Ok", "NotAValidator", "Err"} : ValidatorNew(outcome)
    \/ \E ok \in BOOLEAN : DelayElapsed(ok)
    \/ \E ok \in BOOLEAN : SendCoresRequest(ok)
    \/ \E answer \in {"Ok", "RuntimeErr", "Canceled"}, out \in CoreLists :
          CoresAnswer(answer, out)
    \/ \E i \in 1..MaxCores, ok \in BOOLEAN : CoreStart(i, ok)
    \/ \E i \in 1..MaxCores, ok \in BOOLEAN,
          answer \in {"Some", "None", "RuntimeErr", "Canceled"} :
          CandidateAnswer(i, answer, ok)
    \/ \E i \in 1..MaxCores, answer \in {"true", "false", "Canceled"} :
          ChunkAnswer(i, answer)
    \/ JoinFailed
    \/ JoinDone
    \/ \E ok \in BOOLEAN : SignBitfield(ok)
    \/ \E ok \in BOOLEAN : SendBitfield(ok)

JobSpec == JobInit /\ [][JobNext]_vars

\* C25: construct_availability_bitfield returns a bitfield only if no
\* error occurred at any point: once it has returned Ok(bitfield), no
\* core's CandidatePendingAvailability request was answered with a runtime
\* API error, so no bit is false because a query failed.
C25_BitfieldOnlyWithoutErrors ==
    job.constructed = "Ok" =>
        \A i \in DOMAIN job.results : ~job.results[i].failed

\* The messages of one kind the job has sent.
SentOfKind(kind) == {n \in DOMAIN job_sent : job_sent[n].kind = kind}

\* C26: a BitfieldSigningJob sends at most one DistributeBitfield, that
\* message carries the job's own relay parent, and no availability-cores
\* request, chunk-availability query or DistributeBitfield is sent before
\* JOB_DELAY has elapsed since the job started.
C26_OneBitfieldAfterTheDelay ==
    /\ Cardinality(SentOfKind("DistributeBitfield")) <= 1
    /\ \A n \in SentOfKind("DistributeBitfield") :
          job_sent[n].relay_parent = job.relay_parent
    /\ \A n \in DOMAIN job_sent :
          job_sent[n].kind \in {"AvailabilityCores", "QueryChunkAvailability",
                                "DistributeBitfield"}
              => job_sent[n].at >= job.started + JOB_DELAY

\* The job started when the clock was already running, asked for the
\* cores, queried a chunk and has sent its DistributeBitfield.
C26_Witness ==
    /\ job.pc = "done" /\ job.returned = "Ok"
    /\ job.started > 0
    /\ SentOfKind("AvailabilityCores") # {}
    /\ SentOfKind("QueryChunkAvailability") # {}
    /\ Cardinality(SentOfKind("DistributeBitfield")) = 1
    /\ job.relay_parent = "h2"

(***************************************************************************)
(* Further claims about the collation-generation subsystem.                *)
(***************************************************************************)
\* The step in which handle_new_activations returns Err.
HandlerFails ==
    /\ loop = "handling" /\ loop' = "select"
    /\ ~(hpc = "rp" /\ activated = <<>>)

\* Task t exists and a handler failure has been logged.
SpawnedAndHandlerFailed(t) ==
    /\ t <= Len(tasks)
    /\ "failed to handle new activations" \in logged

\* Task t has run to its end and, if it built a message, the loop has
\* forwarded it once (unless the loop itself has been stopped).
RanToItsEnd(t) ==
    IF t <= Len(tasks)
    THEN /\ tasks[t].pc = "done"
         /\ (tasks[t].msg # NoMsg /\ loop # "exited")
                => tasks[t].forwarded = 1
    ELSE FALSE

\* C27: a failure of the activation handler cancels no builder task that
\* was already spawned: the failing step leaves the tasks and the
\* completion channel as they are, and under fair scheduling every task
\* still runs to its end and the message it built is forwarded by the loop
\* (as long as the loop has not been stopped by Conclude or a receive
\* error).
C27_FailureCancelsNoTask ==
    /\ [][HandlerFails => (tasks' = tasks /\ chan' = chan)]_vars
    /\ \A t \in 1..MaxTasks : SpawnedAndHandlerFailed(t) ~> RanToItsEnd(t)

\* The handler has failed and returned while the first task, spawned
\* before, has not yet taken a step; a second core was never reached.
C27_Witness ==
    /\ "failed to handle new activations" \in logged
    /\ loop = "select" /\ hpc = "idle"
    /\ Len(tasks) = 1
    /\ tasks[1].pc = "collate"
    /\ outbound = <<>>

\* C28: within one batch the relay parents are handled one after another
\* in the order listed: while the handler runs, the relay parent in hand
\* changes only to the next of the list, and only at the head of the loop
\* over the cores with no core in hand and no request outstanding (every
\* core met so far was skipped or got its task); every request is issued,
\* and every task spawned, for the relay parent in hand.
C28_RelayParentsInOrder ==
    /\ [][(loop = "handling" /\ loop' = "handling" /\ activated' # activated)
            => /\ hpc = "core" /\ core = NoCore /\ Outstanding = {}
               /\ activated' = Tail(activated)]_vars
    /\ [][(loop = "handling" /\ Outstanding' # {}
              /\ ~(Outstanding' \subseteq Outstanding))
            => (activated # <<>> /\ activated' = activated)]_vars
    /\ [][Len(tasks') > Len(tasks)
            => /\ activated # <<>> /\ activated' = activated
               /\ tasks'[Len(tasks')].relay_parent = Head(activated)]_vars
    /\ [](Outstanding # {} => activated # <<>>)

\* The second relay parent of a batch is in hand, its first request out,
\* and a task was spawned for the first relay parent.
C28_Witness ==
    /\ loop = "handling"
    /\ activated = <<"h2">>
    /\ hpc = "req_validators"
    /\ Len(tasks) = 1
    /\ tasks[1].relay_parent = "h1"

\* C29: for each relay parent the availability-cores request and the
\* validators request are both submitted before the answer to either is
\* awaited: the validators request is sent while the cores request is
\* still outstanding, nothing of either answer is in hand before the join
\* has completed, and the loop over the cores is entered only from the
\* state in which both requests were outstanding.
C29_BothRequestsBeforeEitherAnswer ==
    /\ [][("validators" \in Outstanding' /\ "validators" \notin Outstanding)
            => /\ "availability_cores" \in Outstanding
               /\ "availability_cores" \in Outstanding']_vars
    /\ [][(hpc' = "core" /\ hpc \notin {"core", "await_vd"})
            => Outstanding = {"availability_cores", "validators"}]_vars
    /\ [](hpc \in {"rp", "req_validators", "join"}
            => n_validators = 0 /\ core = NoCore)

\* Both requests of the second relay parent of a batch are outstanding at
\* once.
C29_Witness ==
    /\ loop = "handling"
    /\ hpc = "join"
    /\ Outstanding = {"availability_cores", "validators"}
    /\ activated = <<"h1">>
    /\ Len(tasks) = 1 /\ tasks[1].relay_parent = "h2"

\* C30: at most one full-validation-data request is outstanding at any
\* time: a request is issued only at the head of the loop over the cores,
\* when none is outstanding; the one outstanding is for the core in hand,
\* and when its answer is taken (the task is spawned, the core is passed
\* over, or the handler returns on an error) none is outstanding until the
\* handler is back at the head of the loop.  Builder tasks spawned for
\* earlier cores may be running meanwhile.
C30_OneValidationDataRequest ==
    /\ [][(hpc' = "await_vd" /\ (hpc # "await_vd" \/ core' # core))
            => /\ hpc = "core"
               /\ "full_validation_data" \notin Outstanding]_vars
    /\ [][(hpc = "await_vd"
              /\ (hpc' # "await_vd" \/ Len(tasks') > Len(tasks)))
            => /\ hpc' \in {"core", "idle"}
               /\ "full_validation_data" \notin Outstanding']_vars
    /\ []("full_validation_data" \in Outstanding
            => (loop = "handling" /\ core # NoCore /\ IsOurs(core)))

\* A validation data request is outstanding while the task spawned for an
\* earlier core of the same relay parent is in the middle of its work.
C30_Witness ==
    /\ "full_validation_data" \in Outstanding
    /\ activated # <<>>
    /\ Len(tasks) = 1
    /\ tasks[1].relay_parent = Head(activated)
    /\ tasks[1].pc = "build"

\* The steps a task may take from each of its places.
TaskOrder ==
    {<<"collate", "build">>, <<"collate", "done">>, <<"build", "send">>,
     <<"build", "done">>, <<"send", "flush">>, <<"send", "done">>,
     <<"flush", "done">>}

\* C31: within every builder task the steps happen in the order produce,
\* erasure commitment, sign, assemble, send: a task moves only forward
\* through its places; before the collator has produced, it holds no
\* collation; a signature (which exists only inside the assembled receipt)
\* is held only by a task that has its collation and is past the erasure
\* root, so a task whose erasure root failed has signed nothing; and a task
\* that has sent holds the fully assembled message.
C31_TaskStepsInOrder ==
    /\ [][\A t \in TaskIds :
             tasks'[t].pc # tasks[t].pc
                => <<tasks[t].pc, tasks'[t].pc>> \in TaskOrder]_vars
    /\ [](\A t \in TaskIds :
             /\ tasks[t].pc = "collate"
                   => tasks[t].collation = <<>> /\ tasks[t].msg = NoMsg
             /\ tasks[t].pc = "build"
                   => tasks[t].collation # <<>> /\ tasks[t].msg = NoMsg
             /\ tasks[t].msg # NoMsg
                   => /\ tasks[t].collation # <<>>
                      /\ tasks[t].msg.receipt.descriptor.erasure_root
                            = erasure_root(tasks[t].n_validators,
                                           tasks[t].validation_data.persisted,
                                           PoVOf(tasks[t].collation))
                      /\ tasks[t].msg
                            = DistributeCollation(tasks[t], tasks[t].collation)
             /\ tasks[t].pc \in {"send", "flush"} => tasks[t].msg # NoMsg
             /\ tasks[t].sends > 0 => tasks[t].msg # NoMsg)
    /\ [][\A t \in TaskIds :
             (tasks[t].pc = "build" /\ tasks'[t].pc = "done")
                => tasks'[t].msg = NoMsg]_vars

\* One task has gone through all its steps and its message is forwarded,
\* while another stopped at its erasure root.
C31_Witness ==
    /\ Len(tasks) = 2
    /\ tasks[1].pc = "done" /\ tasks[1].forwarded = 1
    /\ tasks[2].pc = "done" /\ tasks[2].collation # <<>>
    /\ tasks[2].msg = NoMsg

\* The step in which the loop takes Conclude: it exits and logs nothing.
ConcludeStep ==
    /\ loop = "select" /\ loop' = "exited"
    /\ logged' = logged

\* The loop has exited on a Conclude, not on a receive error.
Concluded == loop = "exited" /\ "error receiving message" \notin logged

\* C32: the step that takes Conclude forwards nothing, spawns nothing and
\* starts no handler, even with completions waiting on the channel; and
\* once the loop has concluded it stays exited, no request is outstanding
\* or issued, no task is spawned and nothing more is forwarded, whatever
\* the tasks still do.
C32_NothingAfterConclude ==
    /\ [][ConcludeStep
            => /\ outbound' = outbound
               /\ tasks' = tasks
               /\ UNCHANGED <<config, handler_vars>>]_vars
    /\ [][Concluded
            => /\ Concluded'
               /\ outbound' = outbound
               /\ Len(tasks') = Len(tasks)
               /\ Outstanding' = {}
               /\ hpc' = "idle"
               /\ \A t \in TaskIds : tasks'[t].forwarded = tasks[t].forwarded
            ]_vars

\* The loop concluded while the message of a task waited on the channel:
\* the message was sent into the channel, was never forwarded, and the
\* task has ended.
C32_Witness ==
    /\ Concluded
    /\ Len(tasks) >= 1
    /\ tasks[1].sends = 1 /\ tasks[1].forwarded = 0
    /\ tasks[1].pc = "done"
    /\ outbound = <<>>

\* The handler passes over the core whose validation data it asked for.
PassesOverCore ==
    /\ hpc = "await_vd" /\ hpc' = "core"
    /\ Len(tasks') = Len(tasks)

\* C33: a skip condition on one core affects only that core.  A core that
\* is not Scheduled for the configured para can always be passed over and
\* passing it over changes nothing; an answer of None can always be taken,
\* and taking it leaves the relay parent in hand, the rest of the batch,
\* the validator count, the tasks, the log and the loop as they are, the
\* handler back at the head of the loop over the cores; from there it can
\* go on to the next relay parent, and with the batch exhausted it returns
\* without logging a failure.
C33_SkipAffectsOnlyThatCore ==
    /\ [][PassesOverCore
            => /\ UNCHANGED <<activated, n_validators, loop_vars, task_vars,
                              outbound>>
               /\ core' = NoCore]_vars
    /\ []((loop = "handling" /\ hpc = "await_vd")
            => ENABLED (HandlerValidationDataNone /\ PassesOverCore))
    /\ []((loop = "handling" /\ hpc = "core")
            => /\ \A c \in CoreStates :
                     ~IsOurs(c) => ENABLED HandlerSkipCore(c)
               /\ ENABLED HandlerRelayParentDone)
    /\ []((loop = "handling" /\ hpc = "rp" /\ activated = <<>>)
            => ENABLED (HandlerReturnOk /\ logged' = logged
                            /\ loop' = "select"))

\* The handler has asked for the validation data of a core of the second
\* relay parent of a batch and no task was spawned for the first: every
\* core of the first was passed over.
C33_Witness ==
    /\ loop = "handling" /\ hpc = "await_vd"
    /\ activated = <<"h2">>
    /\ tasks = <<>>
    /\ "failed to handle new activations" \notin logged

\* The tasks that have assembled a receipt and whose send failed.
SendFailed == {t \in Built : tasks[t].pc = "done" /\ tasks[t].sends = 0}

\* C34: the counter of generated collations is the number of tasks that
\* have assembled a receipt, and at least the number of DistributeCollation
\* messages forwarded outward; it moves only in the step in which a task
\* assembles its receipt, by one, and that task has attempted no send yet;
\* no later step of the task, a failed send included, moves it.
C34_CounterCountsReceipts ==
    /\ [](/\ collations_generated_total = Cardinality(Built)
          /\ collations_generated_total >= Len(outbound)
          /\ collations_generated_total
                >= Cardinality({t \in TaskIds : tasks[t].sends > 0})
                   + Cardinality(SendFailed))
    /\ [][collations_generated_total' # collations_generated_total
            => /\ collations_generated_total' = collations_generated_total + 1
               /\ \E t \in TaskIds :
                     /\ tasks[t].msg = NoMsg /\ tasks'[t].msg # NoMsg
                     /\ tasks'[t].pc = "send" /\ tasks'[t].sends = 0
                     /\ \A u \in TaskIds \ {t} : tasks'[u] = tasks[u]]_vars
    /\ [][\A t \in TaskIds :
             (tasks[t].pc = "send" /\ tasks'[t].pc # "send")
                => collations_generated_total' = collations_generated_total]_vars

\* Two receipts were assembled and counted; the send of the first failed
\* and the message of the second is still with its task: nothing was
\* forwarded.
C34_Witness ==
    /\ Len(tasks) = 2
    /\ 1 \in SendFailed
    /\ tasks[2].pc = "send"
    /\ collations_generated_total = 2
    /\ outbound = <<>>

\* C35: while the handler runs nothing is read from the completion
\* channel: no step taken during the handling forwards a message or takes
\* one out of the channel, which only grows at its end; a task whose
\* message is in the channel stays inside its send for as long as the
\* handler runs, and no completion can be taken in such a state.
C35_NoForwardWhileHandling ==
    /\ [][loop = "handling"
            => /\ outbound' = outbound
               /\ Len(chan') >= Len(chan)
               /\ SubSeq(chan', 1, Len(chan)) = chan
               /\ \A t \in TaskIds : tasks'[t].forwarded = tasks[t].forwarded
               /\ \A t \in Waiting : tasks'[t].pc = "flush"]_vars
    /\ [](loop = "handling"
            => /\ ~ENABLED ForwardCompletion
               /\ \A t \in Waiting : ~ENABLED TaskFlush(t))

\* Both tasks have reached their send, the second before the first, and
\* both messages wait in the channel while the handler runs; nothing has
\* been forwarded.
C35_Witness ==
    /\ loop = "handling" /\ hpc = "join"
    /\ chan = <<2, 1>>
    /\ tasks[1].pc = "flush" /\ tasks[2].pc = "flush"
    /\ outbound = <<>>

\* C36: restrict_vote returns None whenever the current target's number is
\* at most N; a vote it returns is for base itself when base's number is at
\* least N and otherwise for the ancestor of the current target numbered
\* exactly N; the walk never comes below N, and where every header is read
\* it ends with that ancestor.
C36_RestrictedVoteIsBaseOrBlockN ==
    vote_call = "restrict_vote"
        => LET N == vote_args.rule[1]
               base == vote_args.base
               current_target == vote_args.current_target
           IN /\ current_target <= N => vote_result = NoVote
              /\ vote_result # <<"unreachable">>
              /\ vote_result # NoVote
                    => /\ current_target > N
                       /\ vote_result = IF base >= N
                                        THEN <<BlockHash(base), base>>
                                        ELSE <<BlockHash(N), N>>
              /\ (/\ current_target > N
                  /\ vote_args.best_target <= N + vote_args.rule[2]
                  /\ base < N
                  /\ vote_args.backend = "ok")
                    => vote_result = <<BlockHash(N), N>>

\* The pause block is not finalized and the current target lies two blocks
\* above it: the walk passes a header in between and ends at block N.
C36_Witness ==
    /\ vote_call = "restrict_vote"
    /\ vote_args.base < vote_args.rule[1]
    /\ vote_args.current_target >= vote_args.rule[1] + 2
    /\ vote_result = <<BlockHash(vote_args.rule[1]), vote_args.rule[1]>>

\* The streams held, by token, and the validators a stream has yielded.
Streams == connection_requests.requests
YieldedBy(r) == {r.yielded[i] : i \in DOMAIN r.yielded}
MapValidators(r) == {r.validator_map[id] : id \in DOMAIN r.validator_map}

\* The stream under token t is the same ConnectionRequest before and after
\* the step.
SameStream(t) ==
    /\ t \in DOMAIN Streams /\ t \in DOMAIN Streams'
    /\ Streams'[t].request = Streams[t].request

\* C37: a ConnectionRequest stream yields each validator at most once and
\* only validators of its validator_map: what it has yielded and what its
\* map still holds are, at all times, disjoint and together the validators
\* requested; it yields only in a step that takes a known authority id out
\* of its map (an id that is not in the map yields nothing), it has ended
\* only with every requested validator yielded, and it can end exactly when
\* that is so; the DiscoveredValidator that next returns is the validator
\* just yielded, under the relay parent the stream was put under, which
\* never changes.
C37_EachValidatorAtMostOnce ==
    /\ [](\A t \in DOMAIN Streams :
             LET r == Streams[t]
             IN /\ \A i, j \in DOMAIN r.yielded :
                      r.yielded[i] = r.yielded[j] => i = j
                /\ YieldedBy(r) \subseteq r.requested
                /\ YieldedBy(r) \cap MapValidators(r) = {}
                /\ YieldedBy(r) \cup MapValidators(r) = r.requested
                /\ r.finished => YieldedBy(r) = r.requested
                /\ ENABLED NextFinished(t)
                      <=> (~r.finished /\ YieldedBy(r) = r.requested))
    /\ [][\A t \in Tokens :
             SameStream(t)
                => /\ Streams'[t].relay_parent = Streams[t].relay_parent
                   /\ Streams'[t].requested = Streams[t].requested
                   /\ Streams'[t].yielded # Streams[t].yielded
                         => \E id \in DOMAIN Streams[t].validator_map :
                               /\ Streams'[t].yielded =
                                     Append(Streams[t].yielded,
                                            Streams[t].validator_map[id])
                               /\ id \notin DOMAIN Streams'[t].validator_map
                               /\ called' =
                                     <<"next",
                                       [relay_parent |->
                                            Streams[t].relay_parent,
                                        request |-> Streams[t].request,
                                        validator_id |->
                                            Streams[t].validator_map[id]]>>
                   /\ Streams'[t].yielded = Streams[t].yielded
                         => Streams'[t].validator_map
                               = Streams[t].validator_map]_vars
    /\ [][\A t \in Tokens :
             (t \in DOMAIN Streams' /\ ~SameStream(t))
                => /\ called' = <<"put", Streams'[t].relay_parent>>
                   /\ Streams'[t].yielded = <<>>
                   /\ ~Streams'[t].finished]_vars
    /\ [](\A t \in DOMAIN Streams, id \in AuthorityIds :
             (id \notin DOMAIN Streams[t].validator_map
                 /\ DOMAIN Streams[t].validator_map # {})
                => /\ ENABLED NextUnknown(t, id)
                   /\ ~ENABLED CallNextItem(t, id))

\* A request for two validators, put under h2, has yielded both, the
\* second one last and under h2, and has ended.
C37_Witness ==
    /\ \E t \in DOMAIN Streams :
          /\ Streams[t].relay_parent = "h2"
          /\ Len(Streams[t].yielded) = 2
          /\ Streams[t].finished
          /\ called = <<"next", [relay_parent |-> "h2",
                                 request |-> Streams[t].request,
                                 validator_id |-> Streams[t].yielded[2]]>>

\* The cores of the job that are occupied.
OccupiedCores ==
    {i \in DOMAIN job.availability_cores :
        job.availability_cores[i].kind = "Occupied"}

\* C38: the bitfield returned has one bit per core, in the order of the
\* cores; the bit of a core that is not Occupied is false, and the bit of an
\* Occupied core is what the availability store answered for this
\* validator's chunk of the candidate pending availability on that core.
C38_BitsAreTheStoresAnswers ==
    job.constructed = "Ok"
        => /\ DOMAIN job.bitfield = DOMAIN job.availability_cores
           /\ \A i \in DOMAIN job.bitfield :
                 IF i \in OccupiedCores
                 THEN /\ job.results[i].chunk \in {"true", "false"}
                      /\ job.bitfield[i] = (job.results[i].chunk = "true")
                 ELSE ~job.bitfield[i]

\* A step in which the job meets an error other than NotAValidator and a
\* runtime API error in the answer to the availability-cores request: of
\* Validator::new, of the timer, of a channel (a failed send, a cancelled
\* answer) or of the keystore.
OtherError ==
    \/ ValidatorNew("Err")
    \/ DelayElapsed(FALSE)
    \/ SendCoresRequest(FALSE)
    \/ \E out \in CoreLists : CoresAnswer("Canceled", out)
    \/ JoinFailed
    \/ SignBitfield(FALSE)
    \/ SendBitfield(FALSE)

\* C39: when the node is not a validator, and when the availability-cores
\* request is answered with a runtime API error, the job ends with Ok, no
\* DistributeBitfield is sent and the counter of signed bitfields stays at
\* zero; every other error ends the job with an error in that step and
\* sends nothing; a job that has ended with an error has sent no
\* DistributeBitfield, and a DistributeBitfield is sent only by a job that
\* constructed and signed its bitfield.
C39_QuietEndsAndErrors ==
    /\ [][(ValidatorNew("NotAValidator")
             \/ \E out \in CoreLists : CoresAnswer("RuntimeErr", out))
            => /\ job'.pc = "done" /\ job'.returned = "Ok"
               /\ job_sent' = job_sent
               /\ job'.bitfields_signed_total = 0]_vars
    /\ [][OtherError
            => /\ job'.pc = "done" /\ job'.returned = "Err"
               /\ job_sent' = job_sent]_vars
    /\ []((job.pc = "done" /\ job.constructed # "Ok")
            => /\ SentOfKind("DistributeBitfield") = {}
               /\ job.bitfields_signed_total = 0)
    /\ [](job.returned = "Err" => SentOfKind("DistributeBitfield") = {})
    /\ [](SentOfKind("DistributeBitfield") # {}
            => /\ job.returned = "Ok" /\ job.constructed = "Ok"
               /\ job.bitfields_signed_total = 1)
    /\ [][job.pc = "done" => job' = job /\ job_sent' = job_sent]_vars

\* The availability-cores request was sent after the delay and answered
\* with a runtime API error: the job has ended with Ok, nothing signed and
\* nothing else sent.
C39_Witness ==
    /\ job.pc = "done" /\ job.returned = "Ok"
    /\ job.constructed = "Err(Runtime)"
    /\ Len(job_sent) = 1 /\ job_sent[1].kind = "AvailabilityCores"
    /\ job.bitfields_signed_total = 0

\* C40: saturating_subsume_fungible(id, amount) sets the entry of id to
\* min(old + amount, 2^128 - 1), old being 0 when there was no entry: the
\* entry never wraps and never decreases, and no other fungible entry and
\* no non-fungible entry changes.
C40_SubsumeFungibleSaturates ==
    (/\ assets_call = "saturating_subsume"
     /\ Head(assets_arg).tag \in {"ConcreteFungible", "AbstractFungible"})
        => LET id == IF Head(assets_arg).tag = "ConcreteFungible"
                     THEN Concrete(Head(assets_arg).id)
                     ELSE Abstract(Head(assets_arg).id)
               amount == Head(assets_arg).amount
               old == AmountOf(assets_before, id)
           IN /\ id \in DOMAIN assets_self.fungible
              /\ assets_self.fungible[id] =
                    IF old + amount <= U128Max THEN old + amount
                    ELSE U128Max
              /\ assets_self.fungible[id] >= old
              /\ assets_self.fungible[id] >= amount
              /\ DOMAIN assets_self.fungible
                    = DOMAIN assets_before.fungible \cup {id}
              /\ \A other \in DOMAIN assets_before.fungible \ {id} :
                    assets_self.fungible[other]
                       = assets_before.fungible[other]
              /\ assets_self.non_fungible = assets_before.non_fungible

\* An amount is subsumed into an entry that cannot take all of it: the
\* entry stands at the maximum, above what it held, and another fungible
\* entry and a non-fungible one are held beside it.
C40_Witness ==
    /\ assets_call = "saturating_subsume"
    /\ Head(assets_arg).tag = "AbstractFungible"
    /\ AmountOf(assets_before, Abstract(1)) + Head(assets_arg).amount
          > U128Max
    /\ AmountOf(assets_before, Abstract(1)) < U128Max
    /\ assets_self.fungible[Abstract(1)] = U128Max
    /\ Concrete(1) \in DOMAIN assets_self.fungible
    /\ assets_self.non_fungible # {}

=============================================================================
